---- MODULE Spec2Model ----
(***************************************************************************)
(* Returns-Insight-Pro: the return-lag engines.                            *)
(*                                                                         *)
(*   utils/maturityAnalyzer  analyzeMaturity  (lag distribution, cohort    *)
(*                           projection, target dates, confidence)         *)
(*   utils/contrastAnalyzer  analyzeContrast  (fairness-matched contrast)  *)
(*                                                                         *)
(* Dates.  RawOrderRow.purchase_date / return_date and AppData.t0Date are  *)
(* "YYYY-MM-DD" strings (types.ts).  `new Date("YYYY-MM-DD").getTime()` is *)
(* UTC midnight of that day, so every timestamp of the engines is a whole  *)
(* multiple of MS_PER_DAY; the model counts time in days since the epoch.  *)
(* A missing date (null, undefined, '') is Absent; a missing purchase date *)
(* parses to NaN, and every comparison with NaN is false.                  *)
(*                                                                         *)
(* Numbers.  The engines divide JavaScript doubles.  The model keeps every *)
(* quotient as an exact fraction <<num, den>> in lowest terms, den > 0;    *)
(* den = 0 stands for NaN and the infinities.                              *)
(***************************************************************************)
EXTENDS Integers, Sequences, FiniteSets, Bags, TLC

VARIABLES data, maturity, contrast,
          reportMode, appData,
          returnFilesStatus, returnTempData, t0Date,
          cycleFilesStatus, cycleTempData, error, uploads,
          exportingStatus, scrollY, exports

\* the state of App and of the FileUpload it mounts while it holds no data
uploadVars == <<reportMode, appData, returnFilesStatus, returnTempData, t0Date,
                cycleFilesStatus, cycleTempData, error, uploads>>

\* what the engines are handed and return
engineVars == <<data, maturity, contrast>>

\* the useReportExport of the mounted Dashboard, the window, and the
\* handleDownload / handleScreenshot calls that still await
exportVars == <<exportingStatus, scrollY, exports>>

vars == <<data, maturity, contrast, uploadVars, exportVars>>

(***************************************************************************)
(* Bounds of the model.                                                    *)
(***************************************************************************)
\* Rows in one order export.
MaxOrders == 3
\* handleFileChange calls that await a file at the same time.
MaxPending == 1
\* Export calls that await at the same time.
MaxExports == 2
\* window.scrollY is one of 0..MaxScroll.
MaxScroll == 1
\* The cutoff day T0 chosen by the analyst (days since the epoch).
CutoffDay == 200
\* Units of a row: units_sold and a recorded units_returned are MaxUnits (or 0).
MaxUnits == 1
\* Purchase days of the contrast exports lie within MaxRun days of the cutoff.
MaxRun == 2

(***************************************************************************)
(* Values of the source.                                                   *)
(***************************************************************************)
\* null / undefined / '' of a date field, and an unset comparisonSpan.
Absent == 0
\* `return null` of both engines.
NULL == [isNull |-> TRUE]
\* projection.projectedRate = null: no number
NullRate == <<>>
\* 0 / 0 of JavaScript
NaN == <<0, 0>>

BaselineWindowDays == 60
DefaultSpan == 30
DefaultP50 == 14
DefaultP20 == 4
DefaultP90 == 30
MinP50 == 5
MaxP50 == 60
MaxP90 == 90
MinP90Gap == 5
bucketSize == 2
HistogramPad == 14
HistogramCap == 120

(***************************************************************************)
(* Exact fractions for JavaScript's number division.                       *)
(***************************************************************************)
Abs(x) == IF x < 0 THEN 0 - x ELSE x

RECURSIVE GCD(_, _)
GCD(a, b) == IF b = 0 THEN a ELSE GCD(b, a % b)

\* n / d: 0 / 0 is NaN, n / 0 is +Infinity <<1, 0>> or -Infinity <<-1, 0>>
Frac(n, d) ==
    IF d = 0 THEN (IF n = 0 THEN NaN ELSE IF n > 0 THEN <<1, 0>> ELSE <<0 - 1, 0>>)
    ELSE IF n = 0 THEN <<0, 1>>
    ELSE LET s == IF d < 0 THEN 0 - 1 ELSE 1
             g == GCD(Abs(n), Abs(d))
         IN  <<(s * n) \div g, (s * d) \div g>>

FInt(n) == <<n, 1>>
FAdd(a, b) == Frac(a[1] * b[2] + b[1] * a[2], a[2] * b[2])
FSub(a, b) == Frac(a[1] * b[2] - b[1] * a[2], a[2] * b[2])
FMul(a, b) == Frac(a[1] * b[1], a[2] * b[2])
\* a / b for b # 0
FDiv(a, b) == Frac(a[1] * b[2], a[2] * b[1])
FLe(a, b) == a[1] * b[2] <= b[1] * a[2]
FLt(a, b) == a[1] * b[2] < b[1] * a[2]
FMax(a, b) == IF FLt(a, b) THEN b ELSE a

Max(a, b) == IF a >= b THEN a ELSE b
Min(a, b) == IF a <= b THEN a ELSE b

RECURSIVE SumSeq(_)
SumSeq(s) == IF s = <<>> THEN 0 ELSE Head(s) + SumSeq(Tail(s))

RECURSIVE FSumSeq(_)
FSumSeq(s) == IF s = <<>> THEN FInt(0) ELSE FAdd(Head(s), FSumSeq(Tail(s)))

MapSeq(s, Op(_)) == [i \in 1..Len(s) |-> Op(s[i])]

(***************************************************************************)
(* Shared helpers of the two engines.                                      *)
(***************************************************************************)
\* new Date(o.purchase_date).getTime() is a number (not NaN)
HasPurchaseTime(o) == o.purchase_date # Absent

\* a helper that prefers units_sold whenever a return date is present
getReturnCount_soldWhenDated(o) ==
    IF o.return_date # Absent THEN o.units_sold
    ELSE IF o.units_returned > 0 THEN o.units_returned
    ELSE 0

\* units_returned null and 0 are both falsy
getReturnCount(o) ==
    IF o.units_returned > 0 THEN o.units_returned
    ELSE IF o.return_date # Absent THEN o.units_sold
    ELSE 0

\* Math.floor((r - p) / MS_PER_DAY) of two whole days
diffDays(o) == o.return_date - o.purchase_date

\* 1. Determine S: let maxTime = 0; forEach: if (t > maxTime) maxTime = t
RECURSIVE maxTimeOf(_)
maxTimeOf(rows) ==
    IF rows = <<>> THEN 0
    ELSE LET o == rows[Len(rows)]
             m == maxTimeOf(SubSeq(rows, 1, Len(rows) - 1))
         IN  IF HasPurchaseTime(o) /\ o.purchase_date > m THEN o.purchase_date ELSE m

\* a window that keeps every row
InWindow_keepsAll(rows, from, to) == rows

\* rows.filter(o => t >= from && t < to), false for a NaN purchase time
InWindow(rows, from, to) ==
    SelectSeq(rows, LAMBDA o : HasPurchaseTime(o) /\ o.purchase_date >= from /\ o.purchase_date < to)

(***************************************************************************)
(* utils/maturityAnalyzer: analyzeMaturity                                 *)
(***************************************************************************)
\* getRangeInfo(subset): start/end as days, '-' as Absent
getRangeInfo(subset) ==
    IF Len(subset) = 0 THEN [start |-> Absent, end |-> Absent, daysSpan |-> 0]
    ELSE LET times == {subset[i].purchase_date : i \in 1..Len(subset)}
             min == CHOOSE t \in times : \A u \in times : t <= u
             max == CHOOSE t \in times : \A u \in times : t >= u
         IN  [start |-> min, end |-> max, daysSpan |-> (max - min) + 1]

\* the sample loop without `if (diffDays >= 0)`
RECURSIVE lagsOf_anySign(_)
lagsOf_anySign(subset) ==
    IF subset = <<>> THEN <<>>
    ELSE LET o == Head(subset)
             rCount == getReturnCount(o)
         IN  (IF rCount > 0 /\ o.return_date # Absent
              THEN [k \in 1..rCount |-> diffDays(o)]
              ELSE <<>>) \o lagsOf_anySign(Tail(subset))

\* 3. preSubset.forEach: push diffDays once per returned unit when diffDays >= 0
RECURSIVE lagsOf(_)
lagsOf(subset) ==
    IF subset = <<>> THEN <<>>
    ELSE LET o == Head(subset)
             rCount == getReturnCount(o)
         IN  (IF rCount > 0 /\ o.return_date # Absent /\ diffDays(o) >= 0
              THEN [k \in 1..rCount |-> diffDays(o)]
              ELSE <<>>) \o lagsOf(Tail(subset))

\* lags.sort((a, b) => a - b)
sortedLags(subset) == SortSeq(lagsOf(subset), LAMBDA a, b : a < b)

\* markers without the final clamps of lines 189-192
markers_unclamped(lags) ==
    LET n == Len(lags)
        d0 == IF n > 0 THEN lags[(n \div 2) + 1] ELSE DefaultP50
        p20a == IF n > 0 THEN Max(1, lags[((n * 20) \div 100) + 1]) ELSE DefaultP20
        p90a == IF n > 0 THEN Max(d0 + MinP90Gap, lags[((n * 90) \div 100) + 1]) ELSE DefaultP90
    IN  [d_value |-> d0, p20_value |-> p20a, p90_value |-> p90a]

\* markers whose P90 keeps its distance from the clamped P50
markers_gapFromClamped(lags) ==
    LET n == Len(lags)
        d0 == IF n > 0 THEN lags[(n \div 2) + 1] ELSE DefaultP50
        d_value == Max(MinP50, Min(d0, MaxP50))
        p20a == IF n > 0 THEN Max(1, lags[((n * 20) \div 100) + 1]) ELSE DefaultP20
        p90a == IF n > 0 THEN Max(d_value + MinP90Gap, lags[((n * 90) \div 100) + 1])
                ELSE DefaultP90
        p20b == Min(p20a, d_value - 1)
        p20_value == IF p20b < 1 THEN 1 ELSE p20b
        p90_value == Max(d_value + 1, Min(p90a, MaxP90))
    IN  [d_value |-> d_value, p20_value |-> p20_value, p90_value |-> p90_value]

\* 4. Find Markers: P50 (D), P20 and P90.  lags[i] of the source is lags[i + 1].
markers(lags) ==
    LET n == Len(lags)
        d0 == IF n > 0 THEN lags[(n \div 2) + 1] ELSE DefaultP50
        p20a == IF n > 0 THEN Max(1, lags[((n * 20) \div 100) + 1]) ELSE DefaultP20
        p90a == IF n > 0 THEN Max(d0 + MinP90Gap, lags[((n * 90) \div 100) + 1]) ELSE DefaultP90
        d_value == Max(MinP50, Min(d0, MaxP50))
        p20b == Min(p20a, d_value - 1)
        p20_value == IF p20b < 1 THEN 1 ELSE p20b
        p90_value == Max(d_value + 1, Min(p90a, MaxP90))
    IN  [d_value |-> d_value, p20_value |-> p20_value, p90_value |-> p90_value]

\* const finalLimit = Math.min(Math.max(lags[p95Index] || 0, p90_value + 14), 120)
finalLimitOf(lags, p90_value) ==
    LET p95Index == (Len(lags) * 95) \div 100
        limitVal == Max(lags[p95Index + 1], p90_value + HistogramPad)
    IN  Min(limitVal, HistogramCap)

\* a histogram loop that reports each bucket's own share, not the running share
RECURSIVE histogramLoop_ownShare(_, _, _, _, _)
histogramLoop_ownShare(lags, i, finalLimit, cumulative, acc) ==
    IF i > finalLimit THEN acc
    ELSE LET count == Cardinality({k \in 1..Len(lags) : lags[k] >= i /\ lags[k] < i + bucketSize})
         IN  histogramLoop_ownShare(lags, i + bucketSize, finalLimit, cumulative + count,
                                    Append(acc, [days |-> i, count |-> count,
                                                 cumulativePct |-> Frac(count, Len(lags))]))

\* for (let i = 0; i <= finalLimit; i += bucketSize) { count; cumulative += count; push }
RECURSIVE histogramLoop(_, _, _, _, _)
histogramLoop(lags, i, finalLimit, cumulative, acc) ==
    IF i > finalLimit THEN acc
    ELSE LET count == Cardinality({k \in 1..Len(lags) : lags[k] >= i /\ lags[k] < i + bucketSize})
         IN  histogramLoop(lags, i + bucketSize, finalLimit, cumulative + count,
                           Append(acc, [days |-> i, count |-> count,
                                        cumulativePct |-> Frac(cumulative + count, Len(lags))]))

\* 5. Build Histogram Data for Chart
buildDistribution(lags, p90_value) ==
    IF Len(lags) > 0
    THEN histogramLoop(lags, 0, finalLimitOf(lags, p90_value), 0, <<>>)
    ELSE <<>>

\* calcStats without the `vol > 0` guard
calcStats_unguarded(subset) ==
    LET vol == SumSeq(MapSeq(subset, LAMBDA o : o.units_sold))
        ret == SumSeq(MapSeq(subset, getReturnCount))
    IN  [volume |-> vol, returns |-> ret, rate |-> Frac(ret, vol),
         range |-> getRangeInfo(subset)]

\* calcStats(subset)
calcStats(subset) ==
    LET vol == SumSeq(MapSeq(subset, LAMBDA o : o.units_sold))
        ret == SumSeq(MapSeq(subset, getReturnCount))
    IN  [volume |-> vol, returns |-> ret,
         rate |-> IF vol > 0 THEN Frac(ret, vol) ELSE FInt(0),
         range |-> getRangeInfo(subset)]

\* the subset sorted newest purchase first
sortedByPurchase_newestFirst(subset) ==
    SortSeq(subset, LAMBDA a, b : a.purchase_date > b.purchase_date)

\* the sort of projectionSubset by purchase date, ascending
sortedByPurchase(subset) ==
    SortSeq(subset, LAMBDA a, b : a.purchase_date < b.purchase_date)

\* the loop with the earlier target of 80% of the volume
RECURSIVE p50VolLoop_at80(_, _, _, _, _)
p50VolLoop_at80(sorted, k, accumulatedVol, total, t0Time) ==
    IF k > Len(sorted) THEN t0Time
    ELSE LET acc == accumulatedVol + sorted[k].units_sold
         IN  IF 5 * acc >= 4 * total THEN sorted[k].purchase_date
             ELSE p50VolLoop_at80(sorted, k + 1, acc, total, t0Time)

\* for (const order of sortedSubset): first purchase time at which the accumulated
\* volume reaches half of the total
RECURSIVE p50VolLoop(_, _, _, _, _)
p50VolLoop(sorted, k, accumulatedVol, total, t0Time) ==
    IF k > Len(sorted) THEN t0Time
    ELSE LET acc == accumulatedVol + sorted[k].units_sold
         IN  IF 2 * acc >= total THEN sorted[k].purchase_date
             ELSE p50VolLoop(sorted, k + 1, acc, total, t0Time)

\* distribution.slice().reverse().find(b => b.days <= day): its index, 0 if none
RECURSIVE lastBucketAtMost(_, _, _)
lastBucketAtMost(distribution, k, day) ==
    IF k = 0 THEN 0
    ELSE IF distribution[k].days <= day THEN k
    ELSE lastBucketAtMost(distribution, k - 1, day)

\* a lookup that steps from bucket to bucket
getCumulativePct_stepwise(distribution, day) ==
    IF Len(distribution) = 0 THEN FInt(1)
    ELSE LET bucketIdx == lastBucketAtMost(distribution, Len(distribution), day)
         IN  IF bucketIdx = 0 THEN FInt(0) ELSE distribution[bucketIdx].cumulativePct

\* the lookup without `if (distribution.length === 0) return 1.0`
getCumulativePct_noEmptyGuard(distribution, day) ==
    LET bucketIdx == lastBucketAtMost(distribution, Len(distribution), day)
    IN  IF bucketIdx = 0 THEN FInt(0)
        ELSE IF bucketIdx = Len(distribution) THEN distribution[bucketIdx].cumulativePct
        ELSE LET bucket == distribution[bucketIdx]
                 nextBucket == distribution[bucketIdx + 1]
                 progress == Frac(day - bucket.days, nextBucket.days - bucket.days)
             IN  FAdd(bucket.cumulativePct,
                      FMul(progress, FSub(nextBucket.cumulativePct, bucket.cumulativePct)))

\* getCumulativePct(day)
getCumulativePct(distribution, day) ==
    IF Len(distribution) = 0 THEN FInt(1)
    ELSE LET bucketIdx == lastBucketAtMost(distribution, Len(distribution), day)
         IN  IF bucketIdx = 0 THEN FInt(0)
             ELSE LET bucket == distribution[bucketIdx]
                  IN  IF bucketIdx = Len(distribution) THEN bucket.cumulativePct
                      ELSE LET nextBucket == distribution[bucketIdx + 1]
                               range == nextBucket.days - bucket.days
                               progress == Frac(day - bucket.days, range)
                               pctRange == FSub(nextBucket.cumulativePct, bucket.cumulativePct)
                           IN  FAdd(bucket.cumulativePct, FMul(progress, pctRange))

\* keys of dailyMap in insertion order
RECURSIVE dailyKeys(_, _)
dailyKeys(subset, seen) ==
    IF subset = <<>> THEN <<>>
    ELSE LET d == Head(subset).purchase_date
         IN  IF d \in seen THEN dailyKeys(Tail(subset), seen)
             ELSE <<d>> \o dailyKeys(Tail(subset), seen \cup {d})

\* a gross-up that scales the realized returns down and does not clamp at 0
grossUp_scaledDown(realized, cumPct) ==
    IF FLt(Frac(1, 100), cumPct)
    THEN FSub(FMul(FInt(realized), cumPct), FInt(realized))
    ELSE FInt(0)

\* the gross-up of a mature or finalized day
grossUp(realized, cumPct) ==
    IF FLt(Frac(1, 100), cumPct)
    THEN FMax(FInt(0), FSub(FDiv(FInt(realized), cumPct), FInt(realized)))
    ELSE FInt(0)

\* a phase rule without the ramp-up phase
phaseOf_noRampup(ageDays, d_value, p90_value) ==
    IF ageDays > p90_value THEN "finalized" ELSE "mature"

\* the phase of a cohort day
phaseOf(ageDays, d_value, p90_value) ==
    IF ageDays > p90_value THEN "finalized"
    ELSE IF ageDays >= d_value THEN "mature"
    ELSE "rampup"

\* a row builder that grosses up mature days only
projectionRow_finalizedAsIs(date, subset, sTime, distribution, d_value, p90_value) ==
    LET dayRows == SelectSeq(subset, LAMBDA o : o.purchase_date = date)
        sales == SumSeq(MapSeq(dayRows, LAMBDA o : o.units_sold))
        realized == SumSeq(MapSeq(dayRows, getReturnCount))
        ageDays == sTime - date
        cumPct == getCumulativePct(distribution, ageDays)
        phase == phaseOf(ageDays, d_value, p90_value)
        forecastAdd == IF phase = "mature" THEN grossUp(realized, cumPct) ELSE FInt(0)
        projectedTotal == FAdd(FInt(realized), forecastAdd)
    IN  [date |-> date, age |-> ageDays, phase |-> phase, sales |-> sales,
         realized |-> realized,
         currentRate |-> IF sales > 0 THEN Frac(realized, sales) ELSE FInt(0),
         lagPct |-> cumPct,
         algorithm |-> IF phase = "rampup" THEN "none" ELSE "gross-up",
         weight |-> IF phase = "rampup" THEN 0 ELSE 1,
         forecastAdd |-> forecastAdd,
         projectedTotal |-> projectedTotal,
         projectedRate |-> IF sales > 0 THEN FDiv(projectedTotal, FInt(sales)) ELSE FInt(0)]

\* dailyMap.forEach((stats, date) => ...): one row of dailyProjections
projectionRow(date, subset, sTime, distribution, d_value, p90_value) ==
    LET dayRows == SelectSeq(subset, LAMBDA o : o.purchase_date = date)
        sales == SumSeq(MapSeq(dayRows, LAMBDA o : o.units_sold))
        realized == SumSeq(MapSeq(dayRows, getReturnCount))
        ageDays == sTime - date
        cumPct == getCumulativePct(distribution, ageDays)
        phase == phaseOf(ageDays, d_value, p90_value)
        forecastAdd == IF phase = "rampup" THEN FInt(0) ELSE grossUp(realized, cumPct)
        projectedTotal == IF phase = "rampup" THEN FInt(realized)
                          ELSE FAdd(FInt(realized), forecastAdd)
    IN  [date |-> date, age |-> ageDays, phase |-> phase, sales |-> sales,
         realized |-> realized,
         currentRate |-> IF sales > 0 THEN Frac(realized, sales) ELSE FInt(0),
         lagPct |-> cumPct,
         algorithm |-> IF phase = "rampup" THEN "none" ELSE "gross-up",
         weight |-> IF phase = "rampup" THEN 0 ELSE 1,
         forecastAdd |-> forecastAdd,
         projectedTotal |-> projectedTotal,
         projectedRate |-> IF sales > 0 THEN FDiv(projectedTotal, FInt(sales)) ELSE FInt(0)]

\* projBuckets[phase] after the forEach, before consolidation
phaseBucket(rows, phase) ==
    LET mine == SelectSeq(rows, LAMBDA r : r.phase = phase)
    IN  [id |-> phase,
         volume |-> SumSeq(MapSeq(mine, LAMBDA r : r.sales)),
         realizedReturns |-> SumSeq(MapSeq(mine, LAMBDA r : r.realized)),
         forecastedReturns |-> FSumSeq(MapSeq(mine, LAMBDA r : r.forecastAdd))]

\* allBuckets.forEach(b => { totalExpectedReturns; contributionRate })
consolidate(b, grandTotalVolume) ==
    LET totalExpectedReturns == FAdd(FInt(b.realizedReturns), b.forecastedReturns)
    IN  [id |-> b.id, volume |-> b.volume, realizedReturns |-> b.realizedReturns,
         forecastedReturns |-> b.forecastedReturns,
         totalExpectedReturns |-> totalExpectedReturns,
         contributionRate |-> IF grandTotalVolume > 0
                              THEN FDiv(totalExpectedReturns, FInt(grandTotalVolume))
                              ELSE FInt(0)]

\* every bucket taken as reliable
reliableBuckets_all(finalized, mature, rampup) == <<finalized, mature, rampup>>

\* only the mature bucket taken as reliable
reliableBuckets_matureOnly(finalized, mature, rampup) == <<mature>>

\* the buckets the forecast is computed from
reliableBuckets(finalized, mature, rampup) == <<finalized, mature>>

\* 8. Trend Calculation: one entry per day of [refStart, min(postEnd, S + 1 day))
trendOf(refSubset, postNominalSubset, t0Time, comparisonSpanDays, sTime) ==
    LET trendStart == t0Time - comparisonSpanDays
        trendEnd == Min(t0Time + comparisonSpanDays, sTime + 1)
        daysInTrend == Max(0, trendEnd - trendStart)
        both == refSubset \o postNominalSubset
    IN  [k \in 1..daysInTrend |->
            LET t == trendStart + (k - 1)
                dayRows == SelectSeq(both, LAMBDA o : o.purchase_date = t)
                vol == SumSeq(MapSeq(dayRows, LAMBDA o : o.units_sold))
                ret == SumSeq(MapSeq(dayRows, getReturnCount))
            IN  [date |-> t, volume |-> vol, returns |-> ret,
                 rate |-> IF vol > 0 THEN Frac(ret, vol) ELSE FInt(0),
                 isPost |-> t >= t0Time]]

\* a status that asks for more than half of the volume
statusOf_aboveHalf(confidenceScore) ==
    IF FLt(Frac(1, 2), confidenceScore) THEN "projecting" ELSE "insufficient"

\* if (confidenceScore >= 0.5) maturityStatus = 'projecting'; else 'insufficient'
statusOf(confidenceScore) ==
    IF FLe(Frac(1, 2), confidenceScore) THEN "projecting" ELSE "insufficient"

\* if (!data.return_order || !data.t0Date || data.return_order.length === 0) return null
insufficientInput(d) ==
    d.orders_null \/ d.t0Date = Absent \/ Len(d.return_order) = 0

\* export const analyzeMaturity = (data: AppData): MaturityAnalysisResult | null
analyzeMaturity(d) ==
    IF insufficientInput(d) THEN NULL
    ELSE
    LET rows == d.return_order
        t0Time == d.t0Date
        comparisonSpanDays == IF d.comparisonSpan = Absent THEN DefaultSpan ELSE d.comparisonSpan
        sTime == maxTimeOf(rows)
        preSubset == InWindow(rows, t0Time - BaselineWindowDays, t0Time)
        lags == sortedLags(preSubset)
        m == markers(lags)
        distribution == buildDistribution(lags, m.p90_value)
        refSubset == InWindow(rows, t0Time - comparisonSpanDays, t0Time)
        postEnd == t0Time + comparisonSpanDays
        projectionSubset == InWindow(rows, t0Time, postEnd)
        totalProjectionVol == SumSeq(MapSeq(projectionSubset, LAMBDA o : o.units_sold))
        sortedSubset == sortedByPurchase(projectionSubset)
        p50VolDateTimestamp ==
            IF totalProjectionVol > 0
            THEN p50VolLoop(sortedSubset, 1, 0, totalProjectionVol, t0Time)
            ELSE t0Time
        p100DateTimestamp ==
            IF totalProjectionVol > 0
            THEN sortedSubset[Len(sortedSubset)].purchase_date
            ELSE t0Time
        earliestEvalTime == p50VolDateTimestamp + m.d_value
        p90Time == p100DateTimestamp + m.p90_value
        unsortedRows == MapSeq(dailyKeys(projectionSubset, {}),
                               LAMBDA date : projectionRow(date, projectionSubset, sTime,
                                                           distribution, m.d_value, m.p90_value))
        dailyProjections == SortSeq(unsortedRows, LAMBDA a, b : a.age > b.age)
        finalized0 == phaseBucket(unsortedRows, "finalized")
        mature0 == phaseBucket(unsortedRows, "mature")
        rampup0 == phaseBucket(unsortedRows, "rampup")
        grandTotalVolume == finalized0.volume + mature0.volume + rampup0.volume
        reliable == reliableBuckets(finalized0, mature0, rampup0)
        reliableVolume == SumSeq(MapSeq(reliable, LAMBDA b : b.volume))
        reliableRealized == SumSeq(MapSeq(reliable, LAMBDA b : b.realizedReturns))
        reliableForecasted == FSumSeq(MapSeq(reliable, LAMBDA b : b.forecastedReturns))
        projectedTotalReturns == FAdd(FInt(reliableRealized), reliableForecasted)
        confidenceScore == IF grandTotalVolume > 0
                           THEN Frac(reliableVolume, grandTotalVolume) ELSE FInt(0)
    IN  [t0 |-> d.t0Date,
         s |-> sTime,
         d_value |-> m.d_value,
         p20_value |-> m.p20_value,
         p90_value |-> m.p90_value,
         maturityStatus |-> statusOf(confidenceScore),
         confidenceScore |-> confidenceScore,
         isEvaluable |-> FLe(Frac(1, 2), confidenceScore),
         earliestEvalDate |-> earliestEvalTime,
         p90Date |-> p90Time,
         daysToWait |-> earliestEvalTime - sTime,
         baselineRange |-> getRangeInfo(preSubset),
         distribution |-> distribution,
         metrics |-> [pre |-> calcStats(preSubset),
                      reference |-> calcStats(refSubset),
                      postMature |-> calcStats(projectionSubset),
                      postNominal |-> calcStats(projectionSubset)],
         projection |-> [projectedRate |-> IF reliableVolume > 0
                                           THEN FDiv(projectedTotalReturns, FInt(reliableVolume))
                                           ELSE NullRate,
                         forecastedVolume |-> reliableForecasted,
                         buckets |-> <<consolidate(finalized0, grandTotalVolume),
                                       consolidate(mature0, grandTotalVolume),
                                       consolidate(rampup0, grandTotalVolume)>>,
                         baselineRate |-> calcStats(preSubset).rate],
         dailyProjections |-> dailyProjections,
         trend |-> trendOf(refSubset, projectionSubset, t0Time, comparisonSpanDays, sTime)]

(***************************************************************************)
(* utils/contrastAnalyzer: analyzeContrast                                 *)
(***************************************************************************)
\* the engine's own getReturnCount
contrast_getReturnCount(o) ==
    IF o.units_returned > 0 THEN o.units_returned
    ELSE IF o.return_date # Absent THEN o.units_sold ELSE 0

\* getLag(o) is null without a return date; otherwise the whole days between
lagIsNull(o) == o.return_date = Absent
getLag(o) == o.return_date - o.purchase_date

\* a guard that lets S = T0 through
noAfterWindow_strict(maxTime, t0Time) == maxTime < t0Time

\* if (maxTime <= t0Time) return null
noAfterWindow(maxTime, t0Time) == maxTime <= t0Time

\* A. afterOrders.forEach: `dayAReturns += rCount` for every row with rCount > 0
afterCounted(o, ageLimitDays) == contrast_getReturnCount(o) > 0

\* the before side without censoring
beforeCounted_uncensored(o, ageLimitDays) == contrast_getReturnCount(o) > 0

\* B. beforeOrders.forEach: `if (lag !== null && lag <= ageLimitDays) dayBReturns += rCount`
beforeCounted(o, ageLimitDays) ==
    contrast_getReturnCount(o) > 0 /\ ~lagIsNull(o) /\ getLag(o) <= ageLimitDays

\* rows.filter(o => o.purchase_date === dateStr)
ordersOn(rows, day) == SelectSeq(rows, LAMBDA o : o.purchase_date = day)

\* a fairness loop whose before window ends on T0 itself
contrastRow_beforeThroughT0(rows, i, afterStart, beforeStart, maxTime) ==
    LET currentAfterTime == afterStart + i
        ageLimitDays == maxTime - currentAfterTime
        afterOrders == ordersOn(rows, currentAfterTime)
        currentBeforeTime == beforeStart + i + 1
        beforeOrders == ordersOn(rows, currentBeforeTime)
    IN  [date |-> currentAfterTime,
         matchedDate |-> currentBeforeTime,
         ageLimit |-> ageLimitDays,
         sales |-> SumSeq(MapSeq(afterOrders, LAMBDA o : o.units_sold)),
         returns |-> SumSeq(MapSeq(SelectSeq(afterOrders,
                                             LAMBDA o : afterCounted(o, ageLimitDays)),
                                   contrast_getReturnCount)),
         refSales |-> SumSeq(MapSeq(beforeOrders, LAMBDA o : o.units_sold)),
         refReturns |-> SumSeq(MapSeq(SelectSeq(beforeOrders,
                                                LAMBDA o : beforeCounted(o, ageLimitDays)),
                                      contrast_getReturnCount))]

\* 5. one pass of the fairness loop, for (let i = 0; i < daysCount; i++)
contrastRow(rows, i, afterStart, beforeStart, maxTime) ==
    LET currentAfterTime == afterStart + i
        ageLimitDays == maxTime - currentAfterTime
        afterOrders == ordersOn(rows, currentAfterTime)
        currentBeforeTime == beforeStart + i
        beforeOrders == ordersOn(rows, currentBeforeTime)
    IN  [date |-> currentAfterTime,
         matchedDate |-> currentBeforeTime,
         ageLimit |-> ageLimitDays,
         sales |-> SumSeq(MapSeq(afterOrders, LAMBDA o : o.units_sold)),
         returns |-> SumSeq(MapSeq(SelectSeq(afterOrders,
                                             LAMBDA o : afterCounted(o, ageLimitDays)),
                                   contrast_getReturnCount)),
         refSales |-> SumSeq(MapSeq(beforeOrders, LAMBDA o : o.units_sold)),
         refReturns |-> SumSeq(MapSeq(SelectSeq(beforeOrders,
                                                LAMBDA o : beforeCounted(o, ageLimitDays)),
                                      contrast_getReturnCount))]

\* the after side's returns of one lag only, not accumulated
afterCumulative_perDay(rows, dd, afterStart, maxTime) ==
    SumSeq(MapSeq(SelectSeq(rows, LAMBDA o :
                      /\ o.purchase_date >= afterStart /\ o.purchase_date <= maxTime
                      /\ afterCounted(o, maxTime - o.purchase_date)
                      /\ ~lagIsNull(o) /\ getLag(o) = dd),
                  contrast_getReturnCount))

\* cumA at offset dd: afterVelocity[0] + ... + afterVelocity[dd], the returns counted
\* on the after side whose lag is known and within 0..dd
afterCumulative(rows, dd, afterStart, maxTime) ==
    SumSeq(MapSeq(SelectSeq(rows, LAMBDA o :
                      /\ o.purchase_date >= afterStart /\ o.purchase_date <= maxTime
                      /\ afterCounted(o, maxTime - o.purchase_date)
                      /\ ~lagIsNull(o) /\ getLag(o) >= 0 /\ getLag(o) <= dd),
                  contrast_getReturnCount))

\* cumB at offset dd: the returns counted on the before side with lag within 0..dd
beforeCumulative(rows, dd, beforeStart, t0Time, maxTime) ==
    SumSeq(MapSeq(SelectSeq(rows, LAMBDA o :
                      /\ o.purchase_date >= beforeStart /\ o.purchase_date < t0Time
                      /\ beforeCounted(o, maxTime - ((o.purchase_date - beforeStart) + t0Time + 1))
                      /\ getLag(o) >= 0 /\ getLag(o) <= dd),
                  contrast_getReturnCount))

\* the absolute difference of the two rates
deltaRateOf_absolute(beforeRate, afterRate) == FSub(afterRate, beforeRate)

\* the after rate as a share of the before rate
deltaRateOf_ratio(beforeRate, afterRate) ==
    IF FLt(FInt(0), beforeRate) THEN FDiv(afterRate, beforeRate)
    ELSE IF FLt(FInt(0), afterRate) THEN FInt(1)
    ELSE FInt(0)

\* the relative delta of step 6
deltaRateOf(beforeRate, afterRate) ==
    IF FLt(FInt(0), beforeRate) THEN FDiv(FSub(afterRate, beforeRate), beforeRate)
    ELSE IF FLt(FInt(0), afterRate) THEN FInt(1)
    ELSE FInt(0)

\* export const analyzeContrast = (data: AppData): ContrastResult | null
analyzeContrast(d) ==
    IF insufficientInput(d) THEN NULL
    ELSE
    LET rows == d.return_order
        t0Time == d.t0Date
        maxTime == maxTimeOf(rows)
    IN  IF noAfterWindow(maxTime, t0Time) THEN NULL
        ELSE
        LET afterStart == t0Time + 1
            daysCount == (maxTime - afterStart) + 1
            beforeStart == t0Time - daysCount
            dailyRows == [k \in 1..daysCount |->
                             contrastRow(rows, k - 1, afterStart, beforeStart, maxTime)]
            afterTotalSales == SumSeq(MapSeq(dailyRows, LAMBDA r : r.sales))
            afterTotalReturns == SumSeq(MapSeq(dailyRows, LAMBDA r : r.returns))
            beforeTotalSales == SumSeq(MapSeq(dailyRows, LAMBDA r : r.refSales))
            beforeTotalReturns == SumSeq(MapSeq(dailyRows, LAMBDA r : r.refReturns))
            beforeRate == IF beforeTotalSales > 0
                          THEN Frac(beforeTotalReturns, beforeTotalSales) ELSE FInt(0)
            afterRate == IF afterTotalSales > 0
                         THEN Frac(afterTotalReturns, afterTotalSales) ELSE FInt(0)
            deltaRate == deltaRateOf(beforeRate, afterRate)
        IN  [hasData |-> TRUE,
             t0 |-> d.t0Date,
             s |-> maxTime,
             runDays |-> daysCount,
             before |-> [sales |-> beforeTotalSales, returns |-> beforeTotalReturns,
                         rate |-> beforeRate],
             after |-> [sales |-> afterTotalSales, returns |-> afterTotalReturns,
                        rate |-> afterRate],
             deltaRate |-> deltaRate,
             isImproved |-> FLt(deltaRate, FInt(0)),
             velocityChart |->
                 [k \in 1..daysCount |->
                     [day |-> k - 1,
                      afterRate |-> IF afterTotalSales > 0
                                    THEN Frac(afterCumulative(rows, k - 1, afterStart, maxTime),
                                              afterTotalSales)
                                    ELSE FInt(0),
                      beforeRate |-> IF beforeTotalSales > 0
                                     THEN Frac(beforeCumulative(rows, k - 1, beforeStart, t0Time,
                                                                maxTime),
                                               beforeTotalSales)
                                     ELSE FInt(0)]],
             dailyBreakdown |-> SortSeq(dailyRows, LAMBDA a, b : a.date > b.date)]

\* the caller's array with the engines' newest-first sort applied to it
returnOrderAfter_newestFirst(rows) ==
    [k \in 1..Len(rows) |-> rows[(Len(rows) + 1) - k]]

\* data.return_order once both engines have run: they read it with forEach,
\* filter and [0]; what they sort (lags, the spread copy of projectionSubset,
\* dailyProjections, dailyRows) and reverse (a slice of distribution) are arrays
\* of their own
returnOrderAfter(rows) == rows

(***************************************************************************)
(* The dashboard: MaturityView and MaturityContrastSection recompute both  *)
(* engines (useMemo on [data]) whenever the AppData handed to them changes.*)
(***************************************************************************)
(***************************************************************************)
(* App and FileUpload.  App holds `data` (appData here; null until a       *)
(* report is generated) and `reportMode`; while data is null it mounts     *)
(* FileUpload, whose state is the files parsed so far, the T0 input, the   *)
(* error message, and the handleFileChange calls that still await a file.  *)
(***************************************************************************)
\* App: useState<ReportMode | null>(null), useState<AppData | ComparisonData | null>(null)
NoMode == "null"
NoData == [isNull |-> TRUE]
SingleModes == {"return", "purchase", "maturity"}
ReportModes == SingleModes \cup {"cycle"}

\* the keys of initialFilesStatus, and the five every report but maturity needs
FileTypes == {"structure", "summary", "reasons", "explanations", "listing", "return_order"}
basicFiles == {"summary", "structure", "reasons", "explanations", "listing"}

initialFilesStatus == [k \in FileTypes |-> FALSE]
\* the six file entries of initialAppData, all null
initialTempData == [k \in FileTypes |-> NULL]
initialCycleStatus == [before |-> initialFilesStatus, after |-> initialFilesStatus]
initialCycleData == [before |-> initialTempData, after |-> initialTempData]

\* no error message
NoError == "null"

\* useReportExport: useState<'pdf' | 'image' | null>(null)
NotExporting == "null"

\* App as it starts, showing the mode selection of FileUpload
AppInit ==
    /\ reportMode = NoMode
    /\ appData = NoData
    /\ returnFilesStatus = initialFilesStatus
    /\ returnTempData = initialTempData
    /\ t0Date = Absent
    /\ cycleFilesStatus = initialCycleStatus
    /\ cycleTempData = initialCycleData
    /\ error = NoError
    /\ uploads = {}
    /\ exportingStatus = NotExporting
    /\ scrollY = 0
    /\ exports = EmptyBag

Render(d, view) ==
    /\ data' = [d EXCEPT !.return_order = returnOrderAfter(@)]
    /\ maturity' = IF view \in {"dashboard", "maturity"} THEN analyzeMaturity(d) ELSE maturity
    /\ contrast' = IF view \in {"dashboard", "contrast"} THEN analyzeContrast(d) ELSE contrast
    /\ UNCHANGED <<uploadVars, exportVars>>

\* Both engines only sum, filter and sort the rows on keys that are unique per
\* output row, so their results do not depend on the order of return_order.  The
\* rows are kept in one order: by purchase date (rows without one first), then by
\* return date and units.
RowKey(o) == <<o.purchase_date, o.return_date, o.units_sold, o.units_returned>>

RECURSIVE KeyLe(_, _)
KeyLe(a, b) ==
    IF a = <<>> THEN TRUE
    ELSE IF Head(a) # Head(b) THEN Head(a) < Head(b)
    ELSE KeyLe(Tail(a), Tail(b))

InsertRow(rows, o) ==
    LET before == SelectSeq(rows, LAMBDA r : KeyLe(RowKey(r), RowKey(o)))
        after == SelectSeq(rows, LAMBDA r : ~KeyLe(RowKey(r), RowKey(o)))
    IN  before \o <<o>> \o after

\* The analyst loads an export that holds one more row.
LoadOrders(o, view) ==
    /\ Len(data.return_order) < MaxOrders
    /\ Render([data EXCEPT !.orders_null = FALSE,
                           !.return_order = InsertRow(@, o)], view)

\* The analyst picks (or clears) the cutoff date T0.
SetCutoff(t, view) ==
    /\ t # data.t0Date
    /\ Render([data EXCEPT !.t0Date = t], view)

initialAppData ==
    [orders_null |-> TRUE, return_order |-> <<>>, t0Date |-> Absent,
     comparisonSpan |-> DefaultSpan]

Init ==
    /\ data \in {initialAppData, [initialAppData EXCEPT !.orders_null = FALSE]}
    /\ maturity = analyzeMaturity(data)
    /\ contrast = analyzeContrast(data)
    /\ AppInit

(***************************************************************************)
(* Rows of the exports.                                                    *)
(***************************************************************************)
\* the lag choice of a row that was never returned: no row is returned that long
\* before its purchase
NoReturn == 0 - (2 * CutoffDay)

\* <<units_sold, units_returned>>: units sold with units_returned left empty, and
\* units sold and all of them recorded as returned
Sold == <<MaxUnits, 0>>
SoldAndReturned == <<MaxUnits, MaxUnits>>
\* one unit more sold than recorded as returned
PartlyReturned == <<MaxUnits + 1, MaxUnits>>
\* several units sold, units_returned left empty
SoldMore == <<MaxUnits + 1, 0>>

Rows(purchases, lagChoices, units) ==
    {[purchase_date |-> p,
      return_date |-> IF l = NoReturn THEN Absent ELSE p + l,
      units_sold |-> u[1],
      units_returned |-> u[2]] : p \in purchases, l \in lagChoices, u \in units}

\* Contrast exports: purchases within MaxRun days of the cutoff, returned after
\* 0..MaxRun days or never, or recorded as returned without a return date; rows
\* returned the day before their purchase; and rows without a purchase date.
ContrastOrders ==
    Rows((CutoffDay - MaxRun)..(CutoffDay + MaxRun), {NoReturn} \cup 0..MaxRun, {Sold})
    \cup Rows((CutoffDay - MaxRun)..(CutoffDay + MaxRun), {NoReturn}, {SoldAndReturned})
    \cup Rows({CutoffDay - 1, CutoffDay + 1}, {0 - 1}, {Sold})
    \cup [purchase_date : {Absent}, return_date : {Absent, CutoffDay},
          units_sold : {MaxUnits}, units_returned : {0}]

NextContrast ==
    \/ \E o \in ContrastOrders : LoadOrders(o, "contrast")
    \/ \E t \in {Absent, CutoffDay} : SetCutoff(t, "contrast")

\* MaturityContrastSection on its own
SpecContrast == Init /\ [][NextContrast]_vars

\* Maturity exports.  Baseline rows are bought on the last day of the baseline
\* window and returned after one of BaselineLags days (or before the purchase, or
\* never); one row is bought on the first day of the window and one the day
\* before it.  Cohort rows are bought on the cutoff day or the day after.  Late
\* rows only move S, to CutoffDay + one of LateOffsets.
BaselineLags == {0 - 1, 0, 3, 64, 92, 130}
LateOffsets == {14, 30, 63, 91}
MaturityOrders ==
    Rows({CutoffDay - 1}, {NoReturn} \cup BaselineLags, {Sold})
    \cup Rows({CutoffDay - 1}, {NoReturn}, {SoldAndReturned})
    \cup Rows({CutoffDay - 1}, {3}, {SoldMore})
    \cup Rows({CutoffDay - BaselineWindowDays, CutoffDay - BaselineWindowDays - 1}, {0}, {Sold})
    \cup Rows({CutoffDay, CutoffDay + 1}, {NoReturn, 1}, {Sold})
    \cup Rows({CutoffDay}, {NoReturn}, {SoldAndReturned, <<0, 0>>})
    \cup Rows({CutoffDay + a : a \in LateOffsets}, {NoReturn}, {Sold})
    \cup Rows({Absent}, {NoReturn}, {Sold})

NextMaturity ==
    \/ \E o \in MaturityOrders : LoadOrders(o, "maturity")
    \/ \E t \in {Absent, CutoffDay} : SetCutoff(t, "maturity")

\* MaturityView on its own
SpecMaturity == Init /\ [][NextMaturity]_vars

\* Exports of the whole dashboard: purchases on the cutoff day and the days next
\* to it (some without units, some returned in part or without a return date, some
\* returned before their purchase), and rows without a purchase date.
DashboardOrders ==
    Rows({CutoffDay - 1, CutoffDay, CutoffDay + 1}, {NoReturn, 0, 1}, {Sold})
    \cup Rows({CutoffDay - 1, CutoffDay, CutoffDay + 1}, {NoReturn}, {SoldAndReturned})
    \cup Rows({CutoffDay, CutoffDay + 1}, {NoReturn}, {<<0, 0>>})
    \cup Rows({CutoffDay - 1, CutoffDay + 1}, {0 - 1}, {Sold})
    \cup Rows({CutoffDay - 1, CutoffDay + 1}, {1}, {PartlyReturned})
    \cup Rows({Absent}, {NoReturn}, {Sold, SoldAndReturned})
    \cup [purchase_date : {Absent}, return_date : {CutoffDay},
          units_sold : {MaxUnits}, units_returned : {0}]

Next ==
    \/ \E o \in DashboardOrders : LoadOrders(o, "dashboard")
    \/ \E t \in {Absent, CutoffDay} : SetCutoff(t, "dashboard")

\* MaturityView with its MaturityContrastSection
Spec == Init /\ [][Next]_vars

(***************************************************************************)
(* What the properties speak about, stated on the export itself.           *)
(***************************************************************************)
RECURSIVE SetSum(_, _)
SetSum(S, f) ==
    IF S = {} THEN 0
    ELSE LET x == CHOOSE y \in S : TRUE IN f[x] + SetSum(S \ {x}, f)

TheRows == data.return_order
RowIds == 1..Len(TheRows)
PurchaseDays == {TheRows[k].purchase_date : k \in RowIds} \ {Absent}
\* S: the latest purchase date of the export (the epoch when no row has one)
LatestPurchase ==
    IF PurchaseDays = {} THEN 0 ELSE CHOOSE p \in PurchaseDays : \A q \in PurchaseDays : q <= p
InputPresent == ~data.orders_null /\ Len(TheRows) > 0 /\ data.t0Date # Absent
OwnLag(k) == TheRows[k].return_date - TheRows[k].purchase_date
\* units returned of purchases of `day` whose own lag is known and at most `limit`
ReturnsWithin(day, limit) ==
    SetSum({k \in RowIds : /\ TheRows[k].purchase_date = day
                           /\ TheRows[k].return_date # Absent
                           /\ OwnLag(k) <= limit},
           [k \in RowIds |-> getReturnCount(TheRows[k])])
BreakdownIds == IF contrast = NULL THEN {} ELSE 1..Len(contrast.dailyBreakdown)

(***************************************************************************)
(* C1  Contrast censorship: on the before side of every day pair, only     *)
(* returns whose own lag is at most ageLimit(i) = S - afterDay_i are       *)
(* counted in refReturns, and before.returns is the sum of the refReturns. *)
(***************************************************************************)
C1_ContrastCensorship ==
    contrast # NULL =>
        /\ \A i \in BreakdownIds :
              LET row == contrast.dailyBreakdown[i]
              IN  /\ row.ageLimit = LatestPurchase - row.date
                  /\ row.refReturns = ReturnsWithin(row.matchedDate, row.ageLimit)
        /\ contrast.before.returns =
              SetSum(BreakdownIds, [i \in BreakdownIds |-> contrast.dailyBreakdown[i].refReturns])

\* a before-day holds a counted return and a return older than the day's ageLimit
C1_Witness ==
    /\ contrast # NULL
    /\ \E i \in BreakdownIds :
          LET row == contrast.dailyBreakdown[i]
          IN  /\ row.refReturns > 0
              /\ \E k \in RowIds : /\ TheRows[k].purchase_date = row.matchedDate
                                   /\ TheRows[k].return_date # Absent
                                   /\ getReturnCount(TheRows[k]) > 0
                                   /\ OwnLag(k) > row.ageLimit

(***************************************************************************)
(* C2  Fairness lock on the after side: every return counted in the after  *)
(* bucket of a day pair has own lag at most ageLimit(i), so both buckets   *)
(* of the pair share one maximum observable age.                           *)
(***************************************************************************)
C2_AfterSideBounded ==
    contrast # NULL =>
        \A i \in BreakdownIds :
            LET row == contrast.dailyBreakdown[i]
            IN  row.returns <= ReturnsWithin(row.date, row.ageLimit)

C10_InsufficientInputGivesNull ==
    (data.orders_null \/ PurchaseDays = {} \/ data.t0Date = Absent) =>
        (maturity = NULL /\ contrast = NULL)

(***************************************************************************)
(* What the maturity properties speak about.                               *)
(***************************************************************************)
ProjectionIds == IF maturity = NULL THEN {} ELSE 1..Len(maturity.dailyProjections)
ProjectionRowAt(i) == maturity.dailyProjections[i]
Reliable(row) == row.phase \in {"mature", "finalized"}
SpanDays == IF data.comparisonSpan = Absent THEN DefaultSpan ELSE data.comparisonSpan
InForecastWindow(p) == p # Absent /\ p >= data.t0Date /\ p < data.t0Date + SpanDays
InBaselineWindow(p) ==
    p # Absent /\ p >= data.t0Date - BaselineWindowDays /\ p < data.t0Date
\* the sorted lag sample of the baseline window
Sample == sortedLags(InWindow(TheRows, data.t0Date - BaselineWindowDays, data.t0Date))
BucketAt(k) == maturity.distribution[k]
\* the row that the last step added to the export
Added(o) ==
    /\ Len(data'.return_order) = Len(data.return_order) + 1
    /\ data'.t0Date = data.t0Date
    /\ data'.return_order = InsertRow(data.return_order, o)

(***************************************************************************)
(* C3  Gross-up invariant: every cohort day of age >= P50 is mature or     *)
(* finalized and has forecastAdd >= 0 and projectedTotal = realized +      *)
(* forecastAdd >= realized.                                                *)
(***************************************************************************)
C3_GrossUpInvariant ==
    \A i \in ProjectionIds :
        LET row == ProjectionRowAt(i)
        IN  row.age >= maturity.d_value =>
                /\ Reliable(row)
                /\ FLe(FInt(0), row.forecastAdd)
                /\ row.projectedTotal = FAdd(FInt(row.realized), row.forecastAdd)
                /\ FLe(FInt(row.realized), row.projectedTotal)

\* a mature day whose realized returns are grossed up by a fraction below 1
C3_Witness ==
    \E i \in ProjectionIds :
        LET row == ProjectionRowAt(i)
        IN  /\ row.phase = "mature"
            /\ row.realized > 0
            /\ FLt(row.lagPct, FInt(1))
            /\ FLt(FInt(0), row.forecastAdd)

\* a mature day with realized returns whose looked-up fraction is 0
C3_ZeroFractionReached ==
    \E i \in ProjectionIds :
        LET row == ProjectionRowAt(i)
        IN  Reliable(row) /\ row.realized > 0 /\ row.lagPct = FInt(0)

(***************************************************************************)
(* C4  Ramp-up invariant: every purchase day of the forecast window has a  *)
(* row; a day of age < P50 is ramp-up; a ramp-up row has forecastAdd = 0,  *)
(* projectedTotal = realized, algorithm 'none' and weight 0; the ramp-up   *)
(* bucket has forecastedReturns = 0.                                       *)
(***************************************************************************)
C4_RampUpInvariant ==
    maturity # NULL =>
        /\ \A p \in PurchaseDays :
              InForecastWindow(p) => \E i \in ProjectionIds : ProjectionRowAt(i).date = p
        /\ \A i \in ProjectionIds :
              LET row == ProjectionRowAt(i)
              IN  /\ row.age < maturity.d_value => row.phase = "rampup"
                  /\ row.phase = "rampup" =>
                        /\ row.forecastAdd = FInt(0)
                        /\ row.projectedTotal = FInt(row.realized)
                        /\ row.algorithm = "none"
                        /\ row.weight = 0
        /\ maturity.projection.buckets[3].id = "rampup"
        /\ maturity.projection.buckets[3].forecastedReturns = FInt(0)

\* a ramp-up day with realized returns that a gross-up would have raised
C4_Witness ==
    \E i \in ProjectionIds :
        LET row == ProjectionRowAt(i)
        IN  /\ row.phase = "rampup"
            /\ row.realized > 0
            /\ FLt(Frac(1, 100), row.lagPct)
            /\ FLt(row.lagPct, FInt(1))

(***************************************************************************)
(* C5  Marker ranges: 1 <= P20 <= P50 <= P90, 5 <= P50 <= 60 and           *)
(* P50 + 1 <= P90 <= 90 in every result.                                   *)
(***************************************************************************)
C5_MarkerRanges ==
    maturity # NULL =>
        /\ 1 <= maturity.p20_value
        /\ maturity.p20_value <= maturity.d_value
        /\ maturity.d_value <= maturity.p90_value
        /\ 5 <= maturity.d_value /\ maturity.d_value <= 60
        /\ maturity.d_value + 1 <= maturity.p90_value
        /\ maturity.p90_value <= 90

\* a sample whose median and 90th percentile both lie above the clamps
C5_Witness ==
    /\ maturity # NULL
    /\ Len(Sample) > 0
    /\ Sample[(Len(Sample) \div 2) + 1] > 90
    /\ maturity.d_value = 60
    /\ maturity.p90_value = 90

(***************************************************************************)
(* C6  Overall projected rate uses reliable volume only: projectedRate is  *)
(* null exactly when the mature and finalized days have no sales, and is   *)
(* otherwise their projected returns over their sales; a row added on a    *)
(* ramp-up day (S unchanged) changes neither projectedRate nor             *)
(* forecastedVolume.                                                       *)
(***************************************************************************)
ReliableRows == SelectSeq(maturity.dailyProjections, Reliable)
ReliableSales == SumSeq(MapSeq(ReliableRows, LAMBDA r : r.sales))
ReliableProjected == FSumSeq(MapSeq(ReliableRows, LAMBDA r : r.projectedTotal))

C6_RateFromReliableDays ==
    maturity # NULL =>
        /\ (maturity.projection.projectedRate = NullRate) <=> (ReliableSales = 0)
        /\ ReliableSales > 0 =>
              maturity.projection.projectedRate = FDiv(ReliableProjected, FInt(ReliableSales))
        /\ maturity.projection.forecastedVolume =
              FSumSeq(MapSeq(ReliableRows, LAMBDA r : r.forecastAdd))

C6_RampUpEdit ==
    \A o \in MaturityOrders :
        (/\ maturity # NULL
         /\ Added(o)
         /\ InForecastWindow(o.purchase_date)
         /\ maturity'.s = maturity.s
         /\ maturity.s - o.purchase_date < maturity.d_value)
        => /\ maturity'.projection.projectedRate = maturity.projection.projectedRate
           /\ maturity'.projection.forecastedVolume = maturity.projection.forecastedVolume

C6_ReliableVolumeOnly == [](C6_RateFromReliableDays) /\ [][C6_RampUpEdit]_vars

\* a projected rate next to a ramp-up day that has sales and returns
C6_Witness ==
    /\ maturity # NULL
    /\ maturity.projection.projectedRate # NullRate
    /\ FLt(FInt(0), maturity.projection.projectedRate)
    /\ \E i \in ProjectionIds :
          /\ ProjectionRowAt(i).phase = "rampup"
          /\ ProjectionRowAt(i).sales > 0
          /\ ProjectionRowAt(i).realized > 0

(***************************************************************************)
(* C7  Confidence monotonicity: a row added outside the forecast window    *)
(* and outside the baseline window (the only rows that can move S with     *)
(* the cohort and the baseline fixed) never lowers confidenceScore, and    *)
(* never turns 'projecting' back into 'insufficient'.                      *)
(***************************************************************************)
C7_OutsideRowAdded ==
    \A o \in MaturityOrders :
        (/\ maturity # NULL
         /\ Added(o)
         /\ ~InForecastWindow(o.purchase_date)
         /\ ~InBaselineWindow(o.purchase_date))
        => /\ FLe(maturity.confidenceScore, maturity'.confidenceScore)
           /\ maturity.maturityStatus = "projecting" => maturity'.maturityStatus = "projecting"

C7_ConfidenceMonotone == [][C7_OutsideRowAdded]_vars

\* S has moved past the cohort: a cohort with sales is fully finalized
C7_Witness ==
    /\ maturity # NULL
    /\ maturity.confidenceScore = FInt(1)
    /\ maturity.s >= data.t0Date + SpanDays
    /\ \E i \in ProjectionIds :
          ProjectionRowAt(i).phase = "finalized" /\ ProjectionRowAt(i).sales > 0

(***************************************************************************)
(* C8  Histogram shape: a non-empty sample gives buckets at days 0, 2, 4,  *)
(* ... up to limit = min(max(sample[floor(0.95 n)], P90 + 14), 120) with   *)
(* cumulative fractions that never decrease and stay within [0, 1]; the    *)
(* last one is 1 when every sample lies below the end of the last bucket.  *)
(* An empty sample gives no bucket.                                        *)
(***************************************************************************)
HistogramLimit ==
    Min(Max(Sample[((Len(Sample) * 95) \div 100) + 1], maturity.p90_value + 14), 120)

C8_HistogramShape ==
    maturity # NULL =>
        LET n == Len(maturity.distribution)
        IN  /\ (n = 0) <=> (Len(Sample) = 0)
            /\ n > 0 =>
                  /\ \A k \in 1..n : BucketAt(k).days = 2 * (k - 1)
                  /\ BucketAt(n).days <= HistogramLimit
                  /\ BucketAt(n).days + 2 > HistogramLimit
                  /\ \A k \in 1..n : /\ FLe(FInt(0), BucketAt(k).cumulativePct)
                                     /\ FLe(BucketAt(k).cumulativePct, FInt(1))
                  /\ \A k \in 1..(n - 1) :
                        FLe(BucketAt(k).cumulativePct, BucketAt(k + 1).cumulativePct)
                  /\ (\A j \in 1..Len(Sample) : Sample[j] < BucketAt(n).days + 2)
                        => BucketAt(n).cumulativePct = FInt(1)

\* a histogram that climbs in two steps to 1
C8_Witness ==
    /\ maturity # NULL
    /\ Len(maturity.distribution) > 0
    /\ BucketAt(Len(maturity.distribution)).cumulativePct = FInt(1)
    /\ \E k \in 1..Len(maturity.distribution) :
          /\ FLt(FInt(0), BucketAt(k).cumulativePct)
          /\ FLt(BucketAt(k).cumulativePct, FInt(1))
          /\ BucketAt(k).count > 0

(***************************************************************************)
(* C11  Zero-denominator guards: every rate of the two engines is a finite *)
(* number, and is 0 when its sales or volume denominator is 0.             *)
(***************************************************************************)
Finite(r) == Len(r) = 2 /\ r[2] > 0
\* a rate next to its denominator
Guarded(rate, denominator) == Finite(rate) /\ (denominator = 0 => rate = FInt(0))

MaturityRates ==
    LET m == maturity.metrics
        b == maturity.projection.buckets
        grandTotalVolume == b[1].volume + b[2].volume + b[3].volume
    IN  {<<m.pre.rate, m.pre.volume>>, <<m.reference.rate, m.reference.volume>>,
         <<m.postMature.rate, m.postMature.volume>>,
         <<m.postNominal.rate, m.postNominal.volume>>,
         <<maturity.projection.baselineRate, m.pre.volume>>,
         <<maturity.confidenceScore, grandTotalVolume>>}
        \cup {<<b[k].contributionRate, grandTotalVolume>> : k \in 1..3}
        \cup {<<ProjectionRowAt(i).currentRate, ProjectionRowAt(i).sales>> : i \in ProjectionIds}
        \cup {<<ProjectionRowAt(i).projectedRate, ProjectionRowAt(i).sales>> : i \in ProjectionIds}
        \cup {<<maturity.trend[k].rate, maturity.trend[k].volume>> :
                 k \in 1..Len(maturity.trend)}

ContrastRates ==
    {<<contrast.before.rate, contrast.before.sales>>,
     <<contrast.after.rate, contrast.after.sales>>}
    \cup {<<contrast.velocityChart[k].beforeRate, contrast.before.sales>> :
             k \in 1..Len(contrast.velocityChart)}
    \cup {<<contrast.velocityChart[k].afterRate, contrast.after.sales>> :
             k \in 1..Len(contrast.velocityChart)}

C11_ZeroDenominatorGuards ==
    /\ maturity # NULL => \A p \in MaturityRates : Guarded(p[1], p[2])
    /\ contrast # NULL => \A p \in ContrastRates : Guarded(p[1], p[2])

\* both engines have answered; a cohort day, a segment and the before side of the
\* contrast have no sales
C11_Witness ==
    /\ maturity # NULL
    /\ contrast # NULL
    /\ maturity.metrics.reference.volume = 0
    /\ contrast.before.sales = 0
    /\ \E i \in ProjectionIds : ProjectionRowAt(i).sales = 0
    /\ \E i \in ProjectionIds : ProjectionRowAt(i).sales > 0

(***************************************************************************)
(* C12  Degenerate distribution: without lag samples in the baseline       *)
(* window the markers are P20 = 4, P50 = 14, P90 = 30, the histogram is    *)
(* empty, the looked-up cumulative fraction of every cohort day is 1, and  *)
(* every cohort day has forecastAdd = 0 and projectedTotal = realized.     *)
(***************************************************************************)
C12_DegenerateDistribution ==
    (maturity # NULL /\ Len(Sample) = 0) =>
        /\ maturity.p20_value = 4
        /\ maturity.d_value = 14
        /\ maturity.p90_value = 30
        /\ maturity.distribution = <<>>
        /\ \A i \in ProjectionIds :
              LET row == ProjectionRowAt(i)
              IN  /\ row.lagPct = FInt(1)
                  /\ row.forecastAdd = FInt(0)
                  /\ row.projectedTotal = FInt(row.realized)

\* no sample although the baseline window has a row, and cohort days with returns
\* in the ramp-up and in a grossed-up phase
C12_Witness ==
    /\ maturity # NULL
    /\ Len(Sample) = 0
    /\ maturity.metrics.pre.volume > 0
    /\ \E i \in ProjectionIds : Reliable(ProjectionRowAt(i)) /\ ProjectionRowAt(i).realized > 0

(***************************************************************************)
(* C13  Effective return count: units_returned when it is > 0, otherwise   *)
(* units_sold when a return date is present, otherwise 0; the helper of    *)
(* the maturity engine and the helper of the contrast engine agree on      *)
(* every record, and the engines' return totals are sums of that count.    *)
(***************************************************************************)
EffectiveReturnCount(o) ==
    IF o.units_returned > 0 THEN o.units_returned
    ELSE IF o.return_date # Absent THEN o.units_sold
    ELSE 0

\* the records of the two scenarios: 10 sold, none returned, no return date; 3 sold,
\* none recorded as returned, with a return date
ScenarioRecords ==
    <<[purchase_date |-> CutoffDay, return_date |-> Absent,
       units_sold |-> 10, units_returned |-> 0],
      [purchase_date |-> CutoffDay, return_date |-> CutoffDay + 1,
       units_sold |-> 3, units_returned |-> 0]>>

\* the effective returns of the rows bought within [from, to)
EffectiveReturnsIn(from, to) ==
    SetSum({k \in RowIds : /\ TheRows[k].purchase_date # Absent
                           /\ TheRows[k].purchase_date >= from
                           /\ TheRows[k].purchase_date < to},
           [k \in RowIds |-> EffectiveReturnCount(TheRows[k])])

C13_EffectiveReturnCount ==
    /\ getReturnCount(ScenarioRecords[1]) = 0
    /\ contrast_getReturnCount(ScenarioRecords[1]) = 0
    /\ getReturnCount(ScenarioRecords[2]) = 3
    /\ contrast_getReturnCount(ScenarioRecords[2]) = 3
    /\ \A k \in RowIds :
          /\ getReturnCount(TheRows[k]) = EffectiveReturnCount(TheRows[k])
          /\ contrast_getReturnCount(TheRows[k]) = getReturnCount(TheRows[k])
    /\ maturity # NULL =>
          /\ maturity.metrics.pre.returns =
                EffectiveReturnsIn(data.t0Date - BaselineWindowDays, data.t0Date)
          /\ maturity.metrics.postNominal.returns =
                EffectiveReturnsIn(data.t0Date, data.t0Date + SpanDays)
    /\ contrast # NULL =>
          contrast.after.returns = EffectiveReturnsIn(data.t0Date + 1, LatestPurchase + 1)

\* both engines have counted a partly returned row with a return date and a row
\* sold without any return
C13_Witness ==
    /\ maturity # NULL
    /\ contrast # NULL
    /\ contrast.after.returns > 0
    /\ \E k \in RowIds : /\ TheRows[k].units_returned > 0
                         /\ TheRows[k].units_sold > TheRows[k].units_returned
                         /\ TheRows[k].return_date # Absent
    /\ \E k \in RowIds : /\ TheRows[k].units_returned = 0
                         /\ TheRows[k].units_sold > 0
                         /\ TheRows[k].return_date = Absent

(***************************************************************************)
(* C14  Lag sample population: the sample holds, for each order bought in  *)
(* [T0 - 60d, T0) with a return date, an effective return count c > 0 and  *)
(* a lag >= 0, exactly c copies of that lag, and nothing else; a row       *)
(* bought outside that window, or returned before its purchase, changes    *)
(* neither the markers nor the histogram.                                  *)
(***************************************************************************)
\* the copies of lag v that the baseline rows contribute
ExpectedCopies(v) ==
    SetSum({k \in RowIds : /\ InBaselineWindow(TheRows[k].purchase_date)
                           /\ TheRows[k].return_date # Absent
                           /\ EffectiveReturnCount(TheRows[k]) > 0
                           /\ OwnLag(k) >= 0
                           /\ OwnLag(k) = v},
           [k \in RowIds |-> EffectiveReturnCount(TheRows[k])])

LagsOfRows == {OwnLag(k) : k \in {j \in RowIds : TheRows[j].return_date # Absent}}
SampleValues == {Sample[j] : j \in 1..Len(Sample)}

C14_SampleIsBaselineLags ==
    data.t0Date # Absent =>
        /\ \A v \in LagsOfRows \cup SampleValues :
              Cardinality({j \in 1..Len(Sample) : Sample[j] = v}) = ExpectedCopies(v)
        /\ \A j \in 1..(Len(Sample) - 1) : Sample[j] <= Sample[j + 1]
        /\ maturity # NULL =>
              \A k \in 1..Len(maturity.distribution) :
                  BucketAt(k).count =
                      SetSum({v \in LagsOfRows : v >= BucketAt(k).days /\ v < BucketAt(k).days + 2},
                             [v \in LagsOfRows |-> ExpectedCopies(v)])

C14_RowOutsideSample ==
    \A o \in MaturityOrders :
        (/\ maturity # NULL
         /\ Added(o)
         /\ \/ ~InBaselineWindow(o.purchase_date)
            \/ (o.return_date # Absent /\ o.return_date < o.purchase_date))
        => /\ maturity'.p20_value = maturity.p20_value
           /\ maturity'.d_value = maturity.d_value
           /\ maturity'.p90_value = maturity.p90_value
           /\ maturity'.distribution = maturity.distribution

C14_LagSamplePopulation == [](C14_SampleIsBaselineLags) /\ [][C14_RowOutsideSample]_vars

\* a sample with several copies of one row's lag, next to a row returned before its
\* purchase and a returned row bought after the cutoff
C14_Witness ==
    /\ maturity # NULL
    /\ \E v \in SampleValues : Cardinality({j \in 1..Len(Sample) : Sample[j] = v}) > 1
    /\ \E k \in RowIds : /\ InBaselineWindow(TheRows[k].purchase_date)
                         /\ TheRows[k].return_date # Absent /\ OwnLag(k) < 0
    /\ \E k \in RowIds : /\ InForecastWindow(TheRows[k].purchase_date)
                         /\ TheRows[k].return_date # Absent

(***************************************************************************)
(* C15  Malformed-row tolerance: a row without purchase date added to a    *)
(* dataset changes nothing in the maturity result (S, markers, histogram,  *)
(* cohort rows, metrics, trend) nor in the contrast result; a row returned *)
(* before its purchase adds no lag sample and leaves markers and histogram *)
(* as they were.                                                           *)
(***************************************************************************)
C15_RowWithoutPurchaseDate ==
    \A o \in DashboardOrders :
        (Added(o) /\ o.purchase_date = Absent)
        => /\ maturity # NULL => maturity' = maturity
           /\ contrast' = contrast

C15_RowReturnedBeforePurchase ==
    \A o \in DashboardOrders :
        (/\ Added(o)
         /\ o.purchase_date # Absent
         /\ o.return_date # Absent
         /\ o.return_date < o.purchase_date)
        => /\ Sample' = Sample
           /\ (maturity # NULL /\ maturity' # NULL) =>
                 /\ maturity'.d_value = maturity.d_value
                 /\ maturity'.p20_value = maturity.p20_value
                 /\ maturity'.p90_value = maturity.p90_value
                 /\ maturity'.distribution = maturity.distribution

C16_ContrastSymmetry ==
    (contrast # NULL /\ contrast.before.rate = contrast.after.rate)
    => /\ contrast.deltaRate = FInt(0)
       /\ contrast.isImproved = FALSE

\* both sides have returns, at the same rate
C16_Witness ==
    /\ contrast # NULL
    /\ contrast.before.rate = contrast.after.rate
    /\ contrast.before.returns > 0
    /\ contrast.after.returns > 0

(***************************************************************************)
(* C18  Input immutability: a run of the engines leaves the order array    *)
(* with the records it was handed, in the same order: after a change of    *)
(* the cutoff the array is the one before, after a load it is the loaded   *)
(* export; and each result is the one of the AppData now held, whatever    *)
(* was computed before.                                                    *)
(***************************************************************************)
C18_ArrayAsHanded ==
    \/ data'.return_order = data.return_order
    \/ \E o \in DashboardOrders : data'.return_order = InsertRow(data.return_order, o)

C18_NothingCarried ==
    /\ maturity = analyzeMaturity(data)
    /\ contrast = analyzeContrast(data)

UnitsSoldOf(ids) == SetSum(ids, [k \in RowIds |-> TheRows[k].units_sold])
WindowIds == {k \in RowIds : InForecastWindow(TheRows[k].purchase_date)}
MatureIds ==
    {k \in WindowIds : LatestPurchase - TheRows[k].purchase_date >= maturity.d_value}

C19_ConfidenceAndStatus ==
    maturity # NULL =>
        /\ maturity.confidenceScore =
              IF UnitsSoldOf(WindowIds) > 0
              THEN Frac(UnitsSoldOf(MatureIds), UnitsSoldOf(WindowIds))
              ELSE FInt(0)
        /\ FLe(FInt(0), maturity.confidenceScore)
        /\ FLe(maturity.confidenceScore, FInt(1))
        /\ maturity.maturityStatus \in {"projecting", "insufficient"}
        /\ (maturity.maturityStatus = "projecting")
              <=> FLe(Frac(1, 2), maturity.confidenceScore)
        /\ maturity.isEvaluable <=> (maturity.maturityStatus = "projecting")

\* exactly half of the forecast window's units were sold on days of age >= P50
C19_Witness ==
    /\ maturity # NULL
    /\ UnitsSoldOf(WindowIds) > 0
    /\ maturity.confidenceScore = Frac(1, 2)
    /\ maturity.maturityStatus = "projecting"

(***************************************************************************)
(* C20  Marker derivation, for a non-empty sorted sample of size n:        *)
(* P50 = sample[floor(0.5 n)] clamped to [5,60]; P20 = max(1,              *)
(* sample[floor(0.2 n)]) capped at P50-1 with floor 1; P90 = max(m + 5,    *)
(* sample[floor(0.9 n)]) with m = sample[floor(0.5 n)], the median before  *)
(* it is clamped, then clamped to [P50+1, 90].  Lags                       *)
(* [2,2,5,5,5,8,10,12,20] give P20 = 2, P50 = 5, P90 = 20.                 *)
(***************************************************************************)
Clamp(x, lo, hi) == Max(lo, Min(x, hi))
SampleAt(pct) == Sample[((Len(Sample) * pct) \div 100) + 1]
ScenarioLags == <<2, 2, 5, 5, 5, 8, 10, 12, 20>>
ScenarioMarkers == [d_value |-> 5, p20_value |-> 2, p90_value |-> 20]

C20_P50AndP20 ==
    /\ maturity.d_value = Clamp(SampleAt(50), MinP50, MaxP50)
    /\ maturity.p20_value = Max(1, Min(Max(1, SampleAt(20)), maturity.d_value - 1))

C20_MarkerDerivation ==
    /\ markers(ScenarioLags) = ScenarioMarkers
    /\ (maturity # NULL /\ Len(Sample) > 0) =>
          /\ C20_P50AndP20
          /\ maturity.p90_value =
                Clamp(Max(SampleAt(50) + MinP90Gap, SampleAt(90)),
                      maturity.d_value + 1, MaxP90)

\* the claim as stated: the five-day gap is taken from the clamped P50
C20_GapFromClampedP50 ==
    /\ markers(ScenarioLags) = ScenarioMarkers
    /\ (maturity # NULL /\ Len(Sample) > 0) =>
          /\ C20_P50AndP20
          /\ maturity.p90_value =
                Clamp(Max(maturity.d_value + MinP90Gap, SampleAt(90)),
                      maturity.d_value + 1, MaxP90)

\* a sample whose median lies below 5 days, so that the clamp moves P50
C20_Witness ==
    /\ maturity # NULL
    /\ Len(Sample) > 0
    /\ SampleAt(50) < MinP50
    /\ maturity.d_value = MinP50

(***************************************************************************)
(* C21  Gross-up formula: a cohort day of age >= P50, mature or finalized  *)
(* alike, has forecastAdd = max(0, realized/f - realized) when its         *)
(* looked-up fraction f is above 0.01 and forecastAdd = 0 otherwise;       *)
(* projectedTotal = realized + forecastAdd; projectedRate =                *)
(* projectedTotal/sales; projectedTotal <= 100 * realized.  A day with     *)
(* sales 100, realized 10 and f = 0.5 gets forecastAdd 10, projectedTotal  *)
(* 20 and projectedRate 0.20.                                              *)
(***************************************************************************)
\* Scenario 5: a cohort of 100 units, 10 of them returned, seen at age 20 under a
\* histogram whose cumulative fraction is 0.5 from day 0 on
ScenarioCohort ==
    <<[purchase_date |-> CutoffDay, return_date |-> CutoffDay + 1,
       units_sold |-> 100, units_returned |-> 10]>>
ScenarioHistogram == <<[days |-> 0, count |-> 1, cumulativePct |-> Frac(1, 2)]>>
ScenarioRow ==
    projectionRow(CutoffDay, ScenarioCohort, CutoffDay + 20, ScenarioHistogram,
                  DefaultP50, DefaultP90)

C21_Scenario ==
    /\ ScenarioRow.phase = "mature"
    /\ ScenarioRow.forecastAdd = FInt(10)
    /\ ScenarioRow.projectedTotal = FInt(20)
    /\ ScenarioRow.projectedRate = Frac(1, 5)

C21_GrossUpFormula ==
    /\ C21_Scenario
    /\ \A i \in ProjectionIds :
          LET row == ProjectionRowAt(i)
              f == row.lagPct
              r == FInt(row.realized)
          IN  row.age >= maturity.d_value =>
                /\ row.phase = IF row.age > maturity.p90_value THEN "finalized" ELSE "mature"
                /\ row.forecastAdd = IF FLt(Frac(1, 100), f)
                                     THEN FMax(FInt(0), FSub(FDiv(r, f), r))
                                     ELSE FInt(0)
                /\ row.projectedTotal = FAdd(r, row.forecastAdd)
                /\ row.sales > 0 => row.projectedRate = FDiv(row.projectedTotal, FInt(row.sales))
                /\ FLe(row.projectedTotal, FMul(FInt(100), r))

\* a finalized day whose realized returns are grossed up by a fraction below 1
C21_Witness ==
    \E i \in ProjectionIds :
        LET row == ProjectionRowAt(i)
        IN  /\ row.phase = "finalized"
            /\ row.realized > 0
            /\ FLt(Frac(1, 100), row.lagPct)
            /\ FLt(row.lagPct, FInt(1))
            /\ FLt(FInt(row.realized), row.projectedTotal)

(***************************************************************************)
(* C22  Target date: daysToWait = (p50VolDate + P50 days) - S in whole     *)
(* days, unclamped (negative once the date has passed), where p50VolDate   *)
(* is the first purchase day by which half of the forecast window's units  *)
(* were sold (T0 when the window sold nothing).  When the forecast window  *)
(* has sales, daysToWait <= 0 holds if and only if confidenceScore >= 0.5  *)
(* (isEvaluable).                                                          *)
(***************************************************************************)
SoldUpTo(p) == UnitsSoldOf({k \in WindowIds : TheRows[k].purchase_date <= p})
HalfDays == {TheRows[k].purchase_date : k \in WindowIds}
P50VolDay ==
    IF UnitsSoldOf(WindowIds) = 0 THEN data.t0Date
    ELSE CHOOSE p \in HalfDays :
            /\ 2 * SoldUpTo(p) >= UnitsSoldOf(WindowIds)
            /\ \A q \in HalfDays : q < p => 2 * SoldUpTo(q) < UnitsSoldOf(WindowIds)

C22_DaysToWait ==
    maturity # NULL =>
        /\ maturity.earliestEvalDate = P50VolDay + maturity.d_value
        /\ maturity.daysToWait = maturity.earliestEvalDate - LatestPurchase

P100VolDay ==
    IF UnitsSoldOf(WindowIds) = 0 THEN data.t0Date
    ELSE CHOOSE p \in HalfDays : \A q \in HalfDays : q <= p

BreakdownRow(j) == contrast.dailyBreakdown[j]
UnitsSoldOn(day) == UnitsSoldOf({k \in RowIds : TheRows[k].purchase_date = day})
UnitsSoldBetween(from, to) ==
    UnitsSoldOf({k \in RowIds : /\ TheRows[k].purchase_date # Absent
                                /\ TheRows[k].purchase_date >= from
                                /\ TheRows[k].purchase_date <= to})
BreakdownSum(f) == SetSum(BreakdownIds, [j \in BreakdownIds |-> f[j]])

C24_WindowGeometry ==
    contrast # NULL =>
        LET T0 == data.t0Date
            S == LatestPurchase
            n == contrast.runDays
        IN  /\ S > T0
            /\ n = ((S - (T0 + 1)) + 1)
            /\ Len(contrast.dailyBreakdown) = n
            /\ \A i \in 0..(n - 1) :
                  \E j \in BreakdownIds :
                      /\ BreakdownRow(j).date = T0 + 1 + i
                      /\ BreakdownRow(j).matchedDate = (T0 - n) + i
                      /\ BreakdownRow(j).ageLimit = (n - 1) - i
            /\ \A j \in BreakdownIds :
                  /\ BreakdownRow(j).sales = UnitsSoldOn(BreakdownRow(j).date)
                  /\ BreakdownRow(j).refSales = UnitsSoldOn(BreakdownRow(j).matchedDate)
                  /\ BreakdownRow(j).date # T0
                  /\ BreakdownRow(j).matchedDate # T0
            /\ contrast.after.sales = UnitsSoldBetween(T0 + 1, S)
            /\ contrast.before.sales = UnitsSoldBetween(T0 - n, T0 - 1)
            /\ contrast.after.sales = BreakdownSum([j \in BreakdownIds |-> BreakdownRow(j).sales])
            /\ contrast.after.returns =
                  BreakdownSum([j \in BreakdownIds |-> BreakdownRow(j).returns])
            /\ contrast.before.sales =
                  BreakdownSum([j \in BreakdownIds |-> BreakdownRow(j).refSales])
            /\ contrast.before.returns =
                  BreakdownSum([j \in BreakdownIds |-> BreakdownRow(j).refReturns])

\* a run of two days or more with sales on both sides and a purchase on T0 itself
C24_Witness ==
    /\ contrast # NULL
    /\ contrast.runDays >= 2
    /\ contrast.after.sales > 0
    /\ contrast.before.sales > 0
    /\ UnitsSoldOn(data.t0Date) > 0

(***************************************************************************)
(* C25  Relative delta: deltaRate = (after.rate - before.rate)/before.rate *)
(* when before.rate > 0; exactly 1 when before.rate = 0 and after.rate >   *)
(* 0; 0 when both are 0; isImproved is true if and only if before.rate > 0 *)
(* and after.rate < before.rate.                                           *)
(***************************************************************************)
C25_RelativeDelta ==
    contrast # NULL =>
        LET b == contrast.before.rate
            a == contrast.after.rate
        IN  /\ FLt(FInt(0), b) => contrast.deltaRate = FDiv(FSub(a, b), b)
            /\ (b = FInt(0) /\ FLt(FInt(0), a)) => contrast.deltaRate = FInt(1)
            /\ (b = FInt(0) /\ a = FInt(0)) => contrast.deltaRate = FInt(0)
            /\ FLe(FInt(0), b) /\ FLe(FInt(0), a)
            /\ contrast.isImproved <=> (FLt(FInt(0), b) /\ FLt(a, b))

\* returns after the cutoff against a before side that sold units and saw none
\* come back
C25_Witness ==
    /\ contrast # NULL
    /\ contrast.before.sales > 0
    /\ contrast.before.rate = FInt(0)
    /\ FLt(FInt(0), contrast.after.rate)
    /\ FLt(contrast.after.rate, FInt(1))
    /\ contrast.deltaRate = FInt(1)

(***************************************************************************)
(* C26  Cumulative-fraction lookup, for a non-empty histogram and an age   *)
(* >= 0: at a bucket boundary (age 0, 2, 4, ...) the lookup is the         *)
(* recorded cumulativePct; between two boundaries it is the linear         *)
(* interpolation of the two bracketing buckets; at or beyond the last      *)
(* bucket it is the last cumulativePct; it lies in [0,1] and never         *)
(* decreases with age; every cohort day has age >= 0 and a bucket is found *)
(* for it.                                                                 *)
(***************************************************************************)
LastBucketDay == BucketAt(Len(maturity.distribution)).days
\* the ages looked up: every day up to three days past the last bucket
LookupAges == 0..(LastBucketDay + 3)
LookupAt(age) == getCumulativePct(maturity.distribution, age)
\* the bucket that starts on an even day
BucketOfDay(day) == BucketAt((day \div bucketSize) + 1)

C26_Lookup ==
    (maturity # NULL /\ Len(maturity.distribution) > 0) =>
        /\ \A k \in 1..Len(maturity.distribution) : BucketAt(k).days = bucketSize * (k - 1)
        /\ \A age \in LookupAges :
              /\ (age % bucketSize = 0 /\ age <= LastBucketDay) =>
                    LookupAt(age) = BucketOfDay(age).cumulativePct
              /\ (age % bucketSize = 1 /\ age < LastBucketDay) =>
                    LookupAt(age) =
                       FDiv(FAdd(BucketOfDay(age - 1).cumulativePct,
                                 BucketOfDay(age + 1).cumulativePct), FInt(2))
              /\ age >= LastBucketDay =>
                    LookupAt(age) = BucketAt(Len(maturity.distribution)).cumulativePct
              /\ FLe(FInt(0), LookupAt(age))
              /\ FLe(LookupAt(age), FInt(1))
              /\ FLe(LookupAt(age), LookupAt(age + 1))
        /\ \A i \in ProjectionIds :
              /\ ProjectionRowAt(i).age >= 0
              /\ lastBucketAtMost(maturity.distribution, Len(maturity.distribution),
                                  ProjectionRowAt(i).age) # 0
              /\ ProjectionRowAt(i).lagPct = LookupAt(ProjectionRowAt(i).age)

\* a cohort day whose age falls between two buckets with different fractions
C26_Witness ==
    /\ maturity # NULL
    /\ Len(maturity.distribution) > 0
    /\ \E i \in ProjectionIds :
          LET age == ProjectionRowAt(i).age
          IN  /\ age % bucketSize = 1
              /\ age < LastBucketDay
              /\ FLt(BucketOfDay(age - 1).cumulativePct, ProjectionRowAt(i).lagPct)
              /\ FLt(ProjectionRowAt(i).lagPct, BucketOfDay(age + 1).cumulativePct)

(***************************************************************************)
(* C27  Velocity chart: velocityChart has runDays points, day = 0 ..        *)
(* runDays-1; at day d the after value is the units of the after side's    *)
(* returns whose own lag is within 0..d over after.sales, the before value *)
(* is the units of the before side's counted returns (own lag at most the  *)
(* day's ageLimit) whose lag is within 0..d over before.sales, and 0 for a *)
(* side without sales; each series never decreases, and its last point is  *)
(* at most the side's aggregate rate.                                      *)
(***************************************************************************)
ChartIds == IF contrast = NULL THEN {} ELSE 1..Len(contrast.velocityChart)
ChartPoint(k) == contrast.velocityChart[k]
LagWithin(k, d) == TheRows[k].return_date # Absent /\ OwnLag(k) >= 0 /\ OwnLag(k) <= d
AfterIds ==
    {k \in RowIds : /\ TheRows[k].purchase_date > data.t0Date
                    /\ TheRows[k].purchase_date <= LatestPurchase}
BeforeIds ==
    {k \in RowIds : /\ TheRows[k].purchase_date >= data.t0Date - contrast.runDays
                    /\ TheRows[k].purchase_date < data.t0Date}
\* the ageLimit of the breakdown row a before day is matched with
AgeLimitOfBeforeDay(p) == (data.t0Date - 1) - p
AfterReturnsUpTo(d) ==
    SetSum({k \in AfterIds : LagWithin(k, d)},
           [k \in RowIds |-> contrast_getReturnCount(TheRows[k])])
BeforeReturnsUpTo(d) ==
    SetSum({k \in BeforeIds : /\ LagWithin(k, d)
                              /\ OwnLag(k) <= AgeLimitOfBeforeDay(TheRows[k].purchase_date)},
           [k \in RowIds |-> contrast_getReturnCount(TheRows[k])])

C27_VelocityChart ==
    contrast # NULL =>
        /\ Len(contrast.velocityChart) = contrast.runDays
        /\ \A k \in ChartIds :
              /\ ChartPoint(k).day = k - 1
              /\ ChartPoint(k).afterRate =
                    IF contrast.after.sales > 0
                    THEN Frac(AfterReturnsUpTo(k - 1), contrast.after.sales) ELSE FInt(0)
              /\ ChartPoint(k).beforeRate =
                    IF contrast.before.sales > 0
                    THEN Frac(BeforeReturnsUpTo(k - 1), contrast.before.sales) ELSE FInt(0)
              /\ k > 1 => /\ FLe(ChartPoint(k - 1).afterRate, ChartPoint(k).afterRate)
                          /\ FLe(ChartPoint(k - 1).beforeRate, ChartPoint(k).beforeRate)
        /\ FLe(ChartPoint(Len(contrast.velocityChart)).afterRate, contrast.after.rate)
        /\ FLe(ChartPoint(Len(contrast.velocityChart)).beforeRate, contrast.before.rate)

\* a chart of two days or more whose after series rises from day 0 to day 1, next to
\* a before series with counted returns
C27_Witness ==
    /\ contrast # NULL
    /\ Len(contrast.velocityChart) >= 2
    /\ FLt(FInt(0), ChartPoint(1).afterRate)
    /\ FLt(ChartPoint(1).afterRate, ChartPoint(2).afterRate)
    /\ FLt(FInt(0), ChartPoint(Len(contrast.velocityChart)).beforeRate)

(***************************************************************************)
(* C28  Projected rates stay within 100%: when every order's effective     *)
(* return count is at most its units_sold, every dailyProjections row has  *)
(* projectedTotal <= sales and projectedRate <= 1, and                     *)
(* projection.projectedRate, when not null, is <= 1.                       *)
(***************************************************************************)
ReturnsWithinSales == \A k \in RowIds : getReturnCount(TheRows[k]) <= TheRows[k].units_sold

C28_ProjectedRatesWithin100 ==
    (maturity # NULL /\ ReturnsWithinSales) =>
        /\ \A i \in ProjectionIds :
              /\ FLe(ProjectionRowAt(i).projectedTotal, FInt(ProjectionRowAt(i).sales))
              /\ FLe(ProjectionRowAt(i).projectedRate, FInt(1))
        /\ maturity.projection.projectedRate # NullRate =>
              FLe(maturity.projection.projectedRate, FInt(1))

(***************************************************************************)
(* FileUpload: the files, handleFileChange, handleGenerateReport.          *)
(***************************************************************************)
\* A picked file: the side and the type word its name carries, the type its
\* JSON keys (or its array root) spell, and whether file.text(), JSON.parse and
\* Object.keys go through.  "null" is none.
UploadFile(side, word, key, parses) ==
    [side |-> side, word |-> word, key |-> key, parses |-> parses]

\* array root and key-based detection come before the file name
determineFileType(file) ==
    IF file.key # "null" THEN file.key ELSE file.word

\* every branch returns an object or an array: the wrapper of its type
normalizeData(type, file) == [isNull |-> FALSE, wrapper |-> type]

\* What the analyst picks at once: the summary of the after side, recognised by
\* its name; the other four files of the after side; the five of the before
\* side; an order export, whose name carries no side; a file of the before side
\* that is no JSON together with a JSON file nothing recognises.
SummaryAfter == {UploadFile("after", "summary", "null", TRUE)}
OthersAfter == {UploadFile("after", "null", k, TRUE) : k \in basicFiles \ {"summary"}}
FiveBefore == {UploadFile("before", k, k, TRUE) : k \in basicFiles}
OrderExport == {UploadFile("null", "null", "return_order", TRUE)}
Unreadable == {UploadFile("before", "summary", "null", FALSE),
               UploadFile("after", "null", "null", TRUE)}
Picks == {SummaryAfter, OthersAfter, FiveBefore, OrderExport, Unreadable}

\* the files of a pick the loop stores under `type`
StoredAs(files, type) ==
    {f \in files : f.parses /\ determineFileType(f) = type}

\* newTempData / newStatus of the single-dataset branch once the loop is through
newTempDataOf(tempData, files) ==
    [k \in FileTypes |->
        IF StoredAs(files, k) # {}
        THEN normalizeData(k, CHOOSE f \in StoredAs(files, k) : TRUE)
        ELSE tempData[k]]

newStatusOf(status, files) ==
    [k \in FileTypes |-> status[k] \/ StoredAs(files, k) # {}]

\* the cycle branch skips the files whose name carries no side
OfSide(files, side) == {f \in files : f.side = side}

\* handleFileChange up to its first await: the message is cleared, and the call
\* keeps the mode and the returnTempData / returnFilesStatus of the render it
\* was created in.  The cycle branch copies only the outer object, so it keeps
\* no copy of the before / after entries.
StartUpload(files) ==
    /\ appData = NoData
    /\ reportMode # NoMode
    /\ Cardinality(uploads) < MaxPending
    /\ error' = NoError
    /\ uploads' = uploads \cup
           {[mode |-> reportMode,
             tempData |-> IF reportMode = "cycle" THEN initialTempData ELSE returnTempData,
             status |-> IF reportMode = "cycle" THEN initialFilesStatus ELSE returnFilesStatus,
             files |-> files]}
    /\ UNCHANGED <<engineVars, exportVars, reportMode, appData, returnFilesStatus,
                   returnTempData, t0Date, cycleFilesStatus, cycleTempData>>

\* the cycle entries after the loop wrote into them
cycleDataAfter(cycleData, files) ==
    [s \in {"before", "after"} |-> newTempDataOf(cycleData[s], OfSide(files, s))]

cycleStatusAfter(cycleStatus, files) ==
    [s \in {"before", "after"} |-> newStatusOf(cycleStatus[s], OfSide(files, s))]

\* a file of the loop landed in the catch block
parseFailed(u) ==
    IF u.mode = "cycle"
    THEN \E f \in u.files : f.side # "null" /\ ~f.parses
    ELSE \E f \in u.files : ~f.parses

\* handleFileChange from its awaits on, while FileUpload is mounted.  The single
\* branch sets what it built on its own copies; the cycle branch wrote into the
\* before / after objects of the state.  Its writes only add entries, and are
\* taken here together with the set calls that follow them.
FinishUpload(u) ==
    /\ appData = NoData
    /\ u \in uploads
    /\ uploads' = uploads \ {u}
    /\ IF u.mode = "cycle"
       THEN /\ cycleTempData' = cycleDataAfter(cycleTempData, u.files)
            /\ cycleFilesStatus' = cycleStatusAfter(cycleFilesStatus, u.files)
            /\ error' = IF parseFailed(u) THEN "parse" ELSE NoError
            /\ UNCHANGED <<returnTempData, returnFilesStatus>>
       ELSE /\ returnTempData' = newTempDataOf(u.tempData, u.files)
            /\ returnFilesStatus' = newStatusOf(u.status, u.files)
            /\ error' = IF parseFailed(u) THEN "parse" ELSE error
            /\ UNCHANGED <<cycleTempData, cycleFilesStatus>>
    /\ UNCHANGED <<engineVars, exportVars, reportMode, appData, t0Date>>

\* A cycle call that is still awaiting when the report is generated goes on
\* writing into the before / after objects, which App now holds as its data.
FinishUploadAfterGenerate(u) ==
    /\ appData # NoData
    /\ u \in uploads
    /\ uploads' = uploads \ {u}
    /\ appData' = [appData EXCEPT !.before = cycleDataAfter(appData, u.files).before,
                                  !.after = cycleDataAfter(appData, u.files).after]
    /\ UNCHANGED <<engineVars, exportVars, reportMode, returnFilesStatus,
                   returnTempData, t0Date, cycleFilesStatus, cycleTempData, error>>

\* the mode cards of the selection screen
SelectMode(m) ==
    /\ appData = NoData
    /\ reportMode = NoMode
    /\ reportMode' = m
    /\ UNCHANGED <<engineVars, exportVars, appData, returnFilesStatus, returnTempData,
                   t0Date, cycleFilesStatus, cycleTempData, error, uploads>>

\* the back button: the single-dataset state is reset, the cycle state is not
BackToModeSelection ==
    /\ appData = NoData
    /\ reportMode # NoMode
    /\ reportMode' = NoMode
    /\ error' = NoError
    /\ returnFilesStatus' = initialFilesStatus
    /\ returnTempData' = initialTempData
    /\ t0Date' = Absent
    /\ UNCHANGED <<engineVars, exportVars, appData, cycleFilesStatus, cycleTempData,
                   uploads>>

\* the T0 date input, shown in maturity mode only
SetT0Date(t) ==
    /\ appData = NoData
    /\ reportMode = "maturity"
    /\ t # t0Date
    /\ t0Date' = t
    /\ UNCHANGED <<engineVars, exportVars, reportMode, appData, returnFilesStatus,
                   returnTempData, cycleFilesStatus, cycleTempData, error, uploads>>

\* the progress of the current mode
completedCount ==
    IF reportMode \in {"return", "purchase"}
    THEN Cardinality({k \in FileTypes : k # "return_order" /\ returnFilesStatus[k]})
    ELSE IF reportMode = "maturity"
    THEN (IF returnFilesStatus["return_order"] THEN 1 ELSE 0)
         + (IF t0Date # Absent THEN 1 ELSE 0)
    ELSE IF reportMode = "cycle"
    THEN Cardinality({k \in basicFiles : cycleFilesStatus.before[k]})
         + Cardinality({k \in basicFiles : cycleFilesStatus.after[k]})
    ELSE 0

totalRequired ==
    IF reportMode \in {"return", "purchase"} THEN 5
    ELSE IF reportMode = "maturity" THEN 2
    ELSE IF reportMode = "cycle" THEN 10
    ELSE 0

\* what App is handed: the six file entries with the T0 of the maturity branch
\* (initialAppData's null otherwise), or the before / after pair
SinglePayload(tempData, t0) ==
    [isNull |-> FALSE, files |-> tempData, t0Date |-> t0,
     before |-> initialTempData, after |-> initialTempData]

CyclePayload(cycleData) ==
    [isNull |-> FALSE, files |-> initialTempData, t0Date |-> Absent,
     before |-> cycleData.before, after |-> cycleData.after]

\* handleGenerateReport without the T0 check of its maturity branch
handleGenerateReport_noT0Check ==
    IF reportMode = "maturity"
    THEN IF returnTempData["return_order"] = NULL
         THEN [error |-> "order and T0", handed |-> NoData]
         ELSE [error |-> error, handed |-> SinglePayload(returnTempData, t0Date)]
    ELSE IF reportMode \in {"return", "purchase"}
    THEN IF \E k \in basicFiles : returnTempData[k] = NULL
         THEN [error |-> "5 files", handed |-> NoData]
         ELSE [error |-> error, handed |-> SinglePayload(returnTempData, Absent)]
    ELSE IF reportMode = "cycle"
    THEN IF ~(/\ \A k \in basicFiles : cycleFilesStatus.before[k]
              /\ \A k \in basicFiles : cycleFilesStatus.after[k])
         THEN [error |-> "10 files", handed |-> NoData]
         ELSE [error |-> error, handed |-> CyclePayload(cycleTempData)]
    ELSE [error |-> error, handed |-> NoData]

\* handleGenerateReport: the message it sets and what it hands to onDataLoaded
handleGenerateReport ==
    IF reportMode = "maturity"
    THEN IF returnTempData["return_order"] = NULL \/ t0Date = Absent
         THEN [error |-> "order and T0", handed |-> NoData]
         ELSE [error |-> error, handed |-> SinglePayload(returnTempData, t0Date)]
    ELSE IF reportMode \in {"return", "purchase"}
    THEN IF \E k \in basicFiles : returnTempData[k] = NULL
         THEN [error |-> "5 files", handed |-> NoData]
         ELSE [error |-> error, handed |-> SinglePayload(returnTempData, Absent)]
    ELSE IF reportMode = "cycle"
    THEN IF ~(/\ \A k \in basicFiles : cycleFilesStatus.before[k]
              /\ \A k \in basicFiles : cycleFilesStatus.after[k])
         THEN [error |-> "10 files", handed |-> NoData]
         ELSE [error |-> error, handed |-> CyclePayload(cycleTempData)]
    ELSE [error |-> error, handed |-> NoData]

\* The generate button, disabled while completedCount # totalRequired.  Once
\* App holds data it shows the Dashboard: FileUpload is unmounted, its state is
\* gone (kept here as the state the next mount starts with), and of the calls
\* still awaiting only the cycle ones can reach what was handed.
GenerateReport ==
    /\ appData = NoData
    /\ reportMode # NoMode
    /\ completedCount = totalRequired
    /\ LET out == handleGenerateReport
       IN  IF out.handed = NoData
           THEN /\ error' = out.error
                /\ UNCHANGED <<appData, returnFilesStatus, returnTempData, t0Date,
                               cycleFilesStatus, cycleTempData, uploads>>
           ELSE /\ appData' = out.handed
                /\ returnFilesStatus' = initialFilesStatus
                /\ returnTempData' = initialTempData
                /\ t0Date' = Absent
                /\ cycleFilesStatus' = initialCycleStatus
                /\ cycleTempData' = initialCycleData
                /\ error' = NoError
                /\ uploads' = IF reportMode = "cycle"
                              THEN {u \in uploads : u.mode = "cycle"}
                              ELSE {}
    /\ UNCHANGED <<engineVars, exportVars, reportMode>>

\* the export calls once their Dashboard is unmounted: its reportRef.current is
\* null and its setExportingStatus reaches no mounted component
Unmounted(calls) ==
    LET copies(e) == IF e \in BagToSet(calls) THEN calls[e] ELSE 0
    IN  [e \in {[x EXCEPT !.mounted = FALSE] : x \in BagToSet(calls)} |->
            copies(e) + copies([e EXCEPT !.mounted = TRUE])]

\* the Dashboard's reset button, enabled also while an export runs; FileUpload
\* mounts anew
ResetApp ==
    /\ appData # NoData
    /\ appData' = NoData
    /\ reportMode' = NoMode
    /\ uploads' = {}
    /\ exportingStatus' = NotExporting
    /\ exports' = Unmounted(exports)
    /\ UNCHANGED <<engineVars, scrollY, returnFilesStatus, returnTempData, t0Date,
                   cycleFilesStatus, cycleTempData, error>>

NextUpload ==
    \/ \E m \in ReportModes : SelectMode(m)
    \/ BackToModeSelection
    \/ \E t \in {Absent, CutoffDay} : SetT0Date(t)
    \/ \E files \in Picks : StartUpload(files)
    \/ \E u \in uploads : FinishUpload(u)
    \/ \E u \in uploads : FinishUploadAfterGenerate(u)
    \/ GenerateReport
    \/ ResetApp

InitUpload ==
    /\ data = initialAppData
    /\ maturity = analyzeMaturity(data)
    /\ contrast = analyzeContrast(data)
    /\ AppInit

\* App with FileUpload, up to the Dashboard and back
SpecUpload == InitUpload /\ [][NextUpload]_vars

(***************************************************************************)
(* C29  Upload gating.                                                     *)
(***************************************************************************)
\* the inputs the current mode requires, as FileUpload holds them: the order
\* file and a T0 in maturity mode, the five files in return and purchase mode,
\* the five files of both sides in cycle mode
RequiredInputsPresent ==
    IF reportMode = "maturity"
    THEN returnTempData["return_order"] # NULL /\ t0Date # Absent
    ELSE IF reportMode \in {"return", "purchase"}
    THEN \A k \in basicFiles : returnTempData[k] # NULL
    ELSE IF reportMode = "cycle"
    THEN \A s \in {"before", "after"} : \A k \in basicFiles : cycleTempData[s][k] # NULL
    ELSE FALSE

\* the same inputs, in what the dashboard was handed
HandedInputsPresent ==
    IF reportMode = "maturity"
    THEN appData.files["return_order"] # NULL /\ appData.t0Date # Absent
    ELSE IF reportMode \in {"return", "purchase"}
    THEN \A k \in basicFiles : appData.files[k] # NULL
    ELSE IF reportMode = "cycle"
    THEN \A s \in {"before", "after"} : \A k \in basicFiles : appData[s][k] # NULL
    ELSE FALSE

\* wherever FileUpload shows a mode, handleGenerateReport hands data exactly when
\* the required inputs are present, and sets a message when it hands none
C29_HandlerGates ==
    (appData = NoData /\ reportMode # NoMode) =>
        LET out == handleGenerateReport
        IN  /\ (out.handed # NoData) <=> RequiredInputsPresent
            /\ (out.handed = NoData) => (out.error # NoError)

\* the dashboard never holds data that lacks a required input
C29_HandedComplete == (appData # NoData) => HandedInputsPresent

\* data reaches the dashboard only from a FileUpload that holds every required
\* input of its mode, and it is that data
C29_Handing ==
    (appData = NoData /\ appData' # NoData) =>
        /\ RequiredInputsPresent
        /\ appData' \in {SinglePayload(returnTempData, t0Date), CyclePayload(cycleTempData)}

\* C29: across mode selections, uploads, back-to-mode-selection and generate,
\* onDataLoaded is invoked only when the required inputs of the current mode are
\* all present (order file and non-empty T0 in maturity mode, the 5 files in
\* return / purchase mode, the 5 files of both sides in cycle mode); otherwise
\* an error message is set and no data is handed to the dashboard.
C29_UploadGating ==
    /\ [](C29_HandlerGates /\ C29_HandedComplete)
    /\ [][C29_Handing]_vars

\* a cycle report was generated: the dashboard holds the five files of both sides
C29_Witness ==
    /\ appData # NoData
    /\ reportMode = "cycle"
    /\ \A s \in {"before", "after"} : \A k \in basicFiles : appData[s][k] # NULL

(***************************************************************************)
(* useReportExport in the Dashboard: handleDownload, handleScreenshot and  *)
(* prepareCanvas.  A call runs to its first await (the 100 ms timer), then *)
(* to its second (html2canvas), then to its end.                           *)
(***************************************************************************)
ExportKinds == {"pdf", "image"}

\* A call that awaits: its kind, the window.scrollY that prepareCanvas saved,
\* the await it is at, and whether its Dashboard is still mounted.
ExportCall(kind, saved, at, mounted) ==
    [kind |-> kind, saved |-> saved, at |-> at, mounted |-> mounted]

\* handleDownload ("pdf") or handleScreenshot ("image") up to the timer; both
\* buttons are disabled while exportingStatus is set, and reportRef.current is
\* the report of the mounted Dashboard, so neither null test returns.
StartExport(kind) ==
    /\ appData # NoData
    /\ exportingStatus = NotExporting
    /\ BagCardinality(exports) < MaxExports
    /\ exportingStatus' = kind
    /\ exports' = exports (+) SetToBag({ExportCall(kind, scrollY, "timer", TRUE)})
    /\ scrollY' = 0
    /\ UNCHANGED <<engineVars, uploadVars>>

\* The timer fires.  With the Dashboard mounted html2canvas starts.  With the
\* Dashboard gone reportRef.current.scrollHeight throws inside the try: catch
\* restores the scroll position and rethrows, the handler alerts, and its
\* finally sets the status of a component that is no longer there.
TimerFires(e) ==
    /\ BagIn(e, exports)
    /\ e.at = "timer"
    /\ IF e.mounted
       THEN /\ exports' = (exports (-) SetToBag({e}))
                            (+) SetToBag({[e EXCEPT !.at = "html2canvas"]})
            /\ UNCHANGED scrollY
       ELSE /\ exports' = exports (-) SetToBag({e})
            /\ scrollY' = e.saved
    /\ UNCHANGED <<engineVars, uploadVars, exportingStatus>>

\* The rest of a call once html2canvas settled.  prepareCanvas restores the
\* scroll position whether html2canvas resolved or rejected; the file is saved,
\* or toDataURL / jsPDF throws and the handler alerts; finally clears the status
\* of its Dashboard on every path.
ExportEnds(e) ==
    /\ BagIn(e, exports)
    /\ e.at = "html2canvas"
    /\ exports' = exports (-) SetToBag({e})
    /\ scrollY' = e.saved
    /\ exportingStatus' = IF e.mounted THEN NotExporting ELSE exportingStatus
    /\ UNCHANGED <<engineVars, uploadVars>>

\* the analyst scrolls the window
UserScroll(y) ==
    /\ y # scrollY
    /\ scrollY' = y
    /\ UNCHANGED <<engineVars, uploadVars, exportingStatus, exports>>

\* every file of a report at once: in the single-dataset modes the five files
\* and the order export, in cycle mode the five files of both sides
AllFiles == FiveBefore \cup SummaryAfter \cup OthersAfter \cup OrderExport

NextExport ==
    \/ \E m \in ReportModes : SelectMode(m)
    \/ \E t \in {Absent, CutoffDay} : SetT0Date(t)
    \/ StartUpload(AllFiles)
    \/ \E u \in uploads : FinishUpload(u)
    \/ GenerateReport
    \/ ResetApp
    \/ \E kind \in ExportKinds : StartExport(kind)
    \/ \E e \in BagToSet(exports) : TimerFires(e)
    \/ \E e \in BagToSet(exports) : ExportEnds(e)
    \/ \E y \in 0..MaxScroll : UserScroll(y)

\* App from the upload of a report to the exports of its Dashboard and back
SpecExport == InitUpload /\ [][NextExport]_vars

(***************************************************************************)
(* C30  Export status lifecycle.                                           *)
(***************************************************************************)
\* the calls of the mounted Dashboard that still await
MountedExports == {e \in BagToSet(exports) : e.mounted}

\* exportingStatus is 'pdf' or 'image' exactly while the mounted Dashboard has a
\* call of that kind awaiting
C30_StatusWhileExporting ==
    /\ (exportingStatus # NotExporting) =>
           \E e \in MountedExports : e.kind = exportingStatus
    /\ \A e \in MountedExports : exportingStatus = e.kind

\* a call that ends leaves the scroll position it saved, and the status of its
\* Dashboard null
C30_EndRestores ==
    (BagCardinality(exports') < BagCardinality(exports)) =>
        \E e \in BagToSet(exports) :
            /\ exports' = exports (-) SetToBag({e})
            /\ scrollY' = e.saved
            /\ e.mounted => exportingStatus' = NotExporting

\* the mounted Dashboard has at most one call awaiting
C30_OnePerDashboard ==
    \A e \in MountedExports : exports[e] = 1 /\ MountedExports = {e}

\* at most one export call awaits
C30_OneInFlight == BagCardinality(exports) <= 1

\* C30: exportingStatus is 'pdf' or 'image' only while the corresponding export
\* is in progress; once handleDownload or handleScreenshot has finished (success,
\* thrown error, null canvas) it is null again and the scroll position saved
\* before the capture is restored; and at most one export is in flight at any
\* time.
C30_ExportLifecycle ==
    /\ [](C30_StatusWhileExporting /\ C30_OneInFlight)
    /\ [][C30_EndRestores]_vars

\* the same with one export in flight per mounted Dashboard
C30_LifecyclePerDashboard ==
    /\ [](C30_StatusWhileExporting /\ C30_OnePerDashboard)
    /\ [][C30_EndRestores]_vars

====
